---- MODULE Spec2Model ----
(***************************************************************************)
(* Model of the documentation synthesis pipeline of ai-docs-generator:     *)
(* GitHubService.safe_run / extract_file_metadata and DocumentationService *)
(* create_rag_index / get_all_files_from_vectorstore /                     *)
(* _generate_docs_with_chunked_processing / delete_rag_index.              *)
(*                                                                         *)
(* Texts are sequences of tokens (one-character strings for error texts,   *)
(* word tokens for LLM outputs and JSON), so that substring tests, case    *)
(* folding, json.dumps and json.loads are computed, not assumed.           *)
(***************************************************************************)
EXTENDS Integers, Sequences, FiniteSets, TLC

(***************************************************************************)
(* Bounds of the model.                                                    *)
(***************************************************************************)
MaxRetriesArg == 3

MaxBackoffArg == 2

MaxPaths == 2

MaxFiles == 3

MaxChunkArg == 2

MaxDocs == 11

\* the longest markdown text handed to the HTML conversion, in tokens
MaxMarkdown == 3

(***************************************************************************)
(* Program constants (src/src/config.py).                                  *)
(***************************************************************************)
MAX_RETRIES == 5

BACKOFF_SECONDS == 10

CHUNK_SIZE == 10

\* get_all_files_from_vectorstore: similarity_search(file_query, k=10)
TopK == 10

(***************************************************************************)
(* Generic helpers.                                                        *)
(***************************************************************************)
RECURSIVE Pow2(_)
Pow2(n) == IF n = 0 THEN 1 ELSE 2 * Pow2(n - 1)

RECURSIVE Concat(_)
Concat(ss) == IF ss = <<>> THEN <<>> ELSE Head(ss) \o Concat(Tail(ss))

\* the concatenation of the sequences of ss; ss is bound as the element of a
\* one-element set, so that it is computed once
Flatten(ss) == CHOOSE r \in {Concat(v) : v \in {ss}} : TRUE

\* Python: pat in text
Contains(text, pat) ==
  \E i \in 1..(Len(text) - Len(pat) + 1) : SubSeq(text, i, i + Len(pat) - 1) = pat

\* Python: str.lower(), on the characters the error texts use
LowerChar(c) ==
  CASE c = "R" -> "r" [] c = "A" -> "a" [] c = "T" -> "t" [] c = "E" -> "e"
    [] c = "L" -> "l" [] c = "I" -> "i" [] c = "M" -> "m"
    [] OTHER -> c

Lower(text) == [i \in 1..Len(text) |-> LowerChar(text[i])]

(***************************************************************************)
(* Optional arguments: <<>> is None, <<v>> is the value v.                 *)
(***************************************************************************)
None == <<>>

Some(v) == <<v>>

\* Python: x or default   (None and 0 are both falsy)
OrDefault(x, default) == IF x = None \/ x[1] = 0 THEN default ELSE x[1]

(***************************************************************************)
(* Error texts the agent invocation may fail with (str(e)), as sequences   *)
(* of characters.                                                          *)
(***************************************************************************)
Err429 == <<"E", " ", "4", "2", "9">>

ErrRateLower == <<"r", "a", "t", "e", " ", "l", "i", "m", "i", "t">>

ErrRateMixed == <<"R", "a", "t", "e", " ", "L", "I", "M", "I", "T">>

ErrTimeout == <<"t", "i", "m", "e", "o", "u", "t">>

ErrRateHyphen == <<"r", "a", "t", "e", "-", "l", "i", "m", "i", "t">>

ErrTexts == {Err429, ErrRateLower, ErrRateMixed, ErrTimeout, ErrRateHyphen}

Pat429 == <<"4", "2", "9">>

PatRateLimit == <<"r", "a", "t", "e", " ", "l", "i", "m", "i", "t">>

\* the same test without the case folding
IsRateLimitCaseSensitive(text) == Contains(text, Pat429) \/ Contains(text, PatRateLimit)

\* every failure taken for a rate limit
IsRateLimitAlways(text) == TRUE

\* safe_run: '429' in text or 'rate limit' in text.lower()
IsRateLimit(text) == Contains(text, Pat429) \/ Contains(Lower(text), PatRateLimit)

\* a wait that grows linearly
WaitLinear(backoff, att) == backoff * att

\* safe_run: wait = backoff_secs * (2 ** (attempt - 1))
Wait(backoff, att) == backoff * Pow2(att - 1)

\* a loop that runs one attempt more
LastAttemptOffByOne(maxr) == maxr + 1

\* safe_run: range(1, max_retries + 1) ends with attempt = max_retries
LastAttempt(maxr) == maxr

\* the error raised after the loop: RuntimeError(f"Failed after {max_retries} rate-limit retries")
ExhaustedError(maxr) ==
  [type |-> "RuntimeError", text |-> <<"F", "a", "i", "l", "e", "d">>, n |-> maxr]

\* the exception object raised by the invocation of one attempt
AgentError(text, att) == [type |-> "AgentError", text |-> text, n |-> att]

(***************************************************************************)
(* JSON.  A JSON text is a sequence of tokens: "{" key value ... "}" for   *)
(* an object, "[" value ... "]" for a list, "'" token ... "'" for a string *)
(* holding free text, and any other token for a plain string.  A parsed    *)
(* object is a function from its keys to its values (a Python dict).       *)
(***************************************************************************)
Structural == {"{", "}", "[", "]", "'"}

\* tokens of prose, which are no JSON values
Prose == {"Sorry", "Here:"}

\* keys whose value is a list of objects
ListKeys == {"classes", "functions", "examples", "methods"}

\* keys whose value is free text
RawKeys == {"error_parsing_JSON"}

KeyOrder ==
  <<"error_parsing_JSON", "id", "path", "language", "module_docstring_or_header",
    "name", "docstring_or_javadoc", "docstring_or_comment", "signature",
    "description", "code", "classes", "methods", "functions", "examples">>

KeysOf(obj) == SelectSeq(KeyOrder, LAMBDA k : k \in DOMAIN obj)

RECURSIVE Dumps(_)
\* json.dumps(obj)
Dumps(obj) ==
  LET ks == KeysOf(obj)
      Value(k) ==
        IF k \in ListKeys
        THEN <<"[">> \o Flatten([i \in 1..Len(obj[k]) |-> Dumps(obj[k][i])]) \o <<"]">>
        ELSE IF k \in RawKeys THEN <<"'">> \o obj[k] \o <<"'">>
        ELSE <<obj[k]>>
  IN <<"{">> \o Flatten([i \in 1..Len(ks) |-> <<ks[i]>> \o Value(ks[i])]) \o <<"}">>

ParseFail == [ok |-> FALSE, val |-> <<>>, next |-> 0]

\* a dict built from key/value pairs in order: a later pair replaces an earlier one
MkDict(pairs) ==
  [k \in {pairs[i][1] : i \in DOMAIN pairs} |->
     pairs[CHOOSE i \in DOMAIN pairs :
             /\ pairs[i][1] = k
             /\ \A j \in DOMAIN pairs : pairs[j][1] = k => j <= i][2]]

\* the parser: a value parsed is bound as the element of a one-element set,
\* so that it is computed once for the steps that use it
RECURSIVE ParseValue(_, _), ParseMembers(_, _, _), ParseItems(_, _, _)
ParseValue(t, i) ==
  IF i > Len(t) THEN ParseFail
  ELSE IF t[i] = "{" THEN ParseMembers(t, i + 1, <<>>)
  ELSE IF t[i] = "[" THEN ParseItems(t, i + 1, <<>>)
  ELSE IF t[i] = "'"
       THEN IF \E j \in (i + 1)..Len(t) : t[j] = "'"
            THEN LET j == CHOOSE j \in (i + 1)..Len(t) :
                            t[j] = "'" /\ \A m \in (i + 1)..(j - 1) : t[m] # "'"
                 IN [ok |-> TRUE, val |-> SubSeq(t, i + 1, j - 1), next |-> j + 1]
            ELSE ParseFail
  ELSE IF t[i] \in Structural \cup Prose THEN ParseFail
  ELSE [ok |-> TRUE, val |-> t[i], next |-> i + 1]

ParseMembers(t, i, pairs) ==
  IF i > Len(t) THEN ParseFail
  ELSE IF t[i] = "}" THEN [ok |-> TRUE, val |-> MkDict(pairs), next |-> i + 1]
  ELSE IF t[i] \in Structural \cup Prose THEN ParseFail
  ELSE LET Rest(v) ==
             IF v.ok THEN ParseMembers(t, v.next, Append(pairs, <<t[i], v.val>>))
             ELSE ParseFail
       IN CHOOSE r \in {Rest(v) : v \in {ParseValue(t, i + 1)}} : TRUE

ParseItems(t, i, items) ==
  IF i > Len(t) THEN ParseFail
  ELSE IF t[i] = "]" THEN [ok |-> TRUE, val |-> items, next |-> i + 1]
  ELSE LET Rest(v) ==
             IF v.ok THEN ParseItems(t, v.next, Append(items, v.val)) ELSE ParseFail
       IN CHOOSE r \in {Rest(v) : v \in {ParseValue(t, i)}} : TRUE

\* json.loads(raw) raises JSONDecodeError
JSONDecodeError(raw) ==
  LET r == ParseValue(raw, 1) IN ~(r.ok /\ r.next = Len(raw) + 1)

\* json.loads(raw), where it does not raise
Loads(raw) == ParseValue(raw, 1).val

(***************************************************************************)
(* The data the model runs on: file records, LLM outputs.                  *)
(***************************************************************************)
ClassK ==
  [name |-> "K", docstring_or_javadoc |-> "kdoc",
   methods |-> <<[name |-> "m", docstring_or_comment |-> "mdoc"]>>]

FuncF == [name |-> "f", docstring_or_comment |-> "fdoc", signature |-> "f()"]

ExampleE == [description |-> "use", code |-> "f()"]

\* a record of the FileMetadata schema
FileRecord(p, doc, cls, fns, exs) ==
  [id |-> p, path |-> p, language |-> "python", module_docstring_or_header |-> doc,
   classes |-> cls, functions |-> fns, examples |-> exs]

\* a sentinel that loses the id
SentinelNoId(raw, it) == [error_parsing_JSON |-> raw, path |-> it]

\* extract_file_metadata: {"error_parsing_JSON": raw, "path": item, "id": item}
Sentinel(raw, it) == [error_parsing_JSON |-> raw, path |-> it, id |-> it]

\* final texts the agent may answer the extraction prompt for file p with
Raws(p) ==
  { Dumps(FileRecord(p, "doc", <<ClassK>>, <<FuncF>>, <<>>)),
    Dumps(FileRecord(p, "doc", <<>>, <<FuncF>>, <<>>)),
    Dumps(FileRecord("zz", "doc", <<>>, <<>>, <<>>)),
    <<"Sorry">>,
    <<"{", "path", p>> }

VARIABLES
  sr_pc,          \* safe_run: "idle", "call", "invoke", "sleep", "returned", "raised"
  sr_prompt,      \* safe_run: the file the prompt is about
  sr_args,        \* safe_run: max_retries and backoff_secs as passed (None or a value)
  max_retries,    \* safe_run: local max_retries
  backoff_secs,   \* safe_run: local backoff_secs
  attempt,        \* safe_run: loop variable
  trace,          \* invocations and sleeps of the running safe_run call, in order
  sr_result,      \* safe_run: the value returned
  sr_error,       \* safe_run: the exception raised
  err_texts,      \* the error texts the agent can fail with
  ex_pc,          \* extract_file_metadata: "idle", "loop", "run", "returned", "raised"
  file_list,      \* extract_file_metadata: the paths passed
  item,           \* extract_file_metadata: index of the current path
  data_list,      \* extract_file_metadata: the records collected
  ex_raws,        \* the texts safe_run returned to extract_file_metadata, in order
  ex_error,       \* extract_file_metadata: the exception that left it
  job,            \* per documentation job: its position and the locals of the calls it is in
  disk            \* index directory -> the documents persisted in it

srVars ==
  <<sr_pc, sr_prompt, sr_args, max_retries, backoff_secs, attempt, trace,
    sr_result, sr_error, err_texts>>

exVars == <<ex_pc, file_list, item, data_list, ex_raws, ex_error>>

docVars == <<job, disk>>

vars == <<srVars, exVars, docVars>>

NoError == [type |-> "none", text |-> <<>>, n |-> 0]

Jobs == {1, 2}

\* a job that is not running
OffJob ==
  [pc |-> "off", entry |-> "none", repo_id |-> <<>>, file_objs |-> <<>>,
   vectorstore |-> <<>>, chunk_arg |-> None, chunk_size |-> 0, file_paths |-> <<>>,
   qi |-> 0, all_file_data |-> <<>>, last_query |-> <<>>, last_docs |-> <<>>,
   absent |-> {}, llm_outs |-> <<>>,
   file_chunks |-> <<>>, ci |-> 0, documentation_parts |-> <<>>, sent |-> <<>>,
   doc |-> <<>>, error |-> NoError, built |-> <<>>, removed |-> {},
   html_messages |-> <<>>, html_calls |-> 0, html |-> <<>>, existed |-> FALSE,
   kind |-> "none", selection |-> <<>>, project_metadata |-> <<>>]

DocIdle ==
  /\ job = [j \in Jobs |-> OffJob]
  /\ disk = <<>>

OptArgs(max) == {None} \cup {Some(v) : v \in 0..max}

InvokeEvent(att, ok, text) ==
  [ev |-> "invoke", att |-> att, ok |-> ok, text |-> text, secs |-> 0]

SleepEvent(att, secs) ==
  [ev |-> "sleep", att |-> att, ok |-> FALSE, text |-> <<>>, secs |-> secs]

(***************************************************************************)
(* GitHubService.safe_run                                                  *)
(***************************************************************************)
\* entry: the defaults, then the first iteration of the loop
SafeRunEnter ==
  /\ sr_pc = "call"
  /\ max_retries' = OrDefault(sr_args.max_retries, MAX_RETRIES)
  /\ backoff_secs' = OrDefault(sr_args.backoff_secs, BACKOFF_SECONDS)
  /\ attempt' = 1
  /\ trace' = <<>>
  /\ sr_result' = <<>>
  /\ IF 1 <= LastAttempt(max_retries')
     THEN sr_pc' = "invoke" /\ sr_error' = NoError
     ELSE sr_pc' = "raised" /\ sr_error' = ExhaustedError(max_retries')
  /\ UNCHANGED <<sr_prompt, sr_args, err_texts, exVars, docVars>>

\* self.agent_executor.invoke(...) returns; return result['output']
SafeRunInvokeReturns ==
  /\ sr_pc = "invoke"
  /\ \E raw \in Raws(sr_prompt) :
       /\ trace' = Append(trace, InvokeEvent(attempt, TRUE, raw))
       /\ sr_result' = raw
  /\ sr_pc' = "returned"
  /\ UNCHANGED <<sr_prompt, sr_args, max_retries, backoff_secs, attempt, sr_error,
                 err_texts, exVars, docVars>>

\* self.agent_executor.invoke(...) raises: the except clause
SafeRunInvokeRaises ==
  /\ sr_pc = "invoke"
  /\ \E text \in err_texts :
       /\ trace' = Append(trace, InvokeEvent(attempt, FALSE, text))
       /\ IF IsRateLimit(text)
          THEN sr_pc' = "sleep" /\ sr_error' = sr_error
          ELSE sr_pc' = "raised" /\ sr_error' = AgentError(text, attempt)
  /\ UNCHANGED <<sr_prompt, sr_args, max_retries, backoff_secs, attempt, sr_result,
                 err_texts, exVars, docVars>>

\* a loop that does not sleep after the failure of the last attempt
SafeRunSleepSkipsLast ==
  /\ sr_pc = "sleep"
  /\ IF attempt < LastAttempt(max_retries)
     THEN /\ trace' = Append(trace, SleepEvent(attempt, Wait(backoff_secs, attempt)))
          /\ sr_pc' = "invoke" /\ attempt' = attempt + 1 /\ sr_error' = sr_error
     ELSE /\ trace' = trace
          /\ sr_pc' = "raised" /\ attempt' = attempt
          /\ sr_error' = ExhaustedError(max_retries)
  /\ UNCHANGED <<sr_prompt, sr_args, max_retries, backoff_secs, sr_result,
                 err_texts, exVars, docVars>>

\* a retry loop that starts over after the last attempt
SafeRunSleepStartsOver ==
  /\ sr_pc = "sleep"
  /\ IF attempt < LastAttempt(max_retries)
     THEN /\ trace' = Append(trace, SleepEvent(attempt, Wait(backoff_secs, attempt)))
          /\ attempt' = attempt + 1
     ELSE /\ trace' = <<>>
          /\ attempt' = 1
  /\ sr_pc' = "invoke"
  /\ UNCHANGED <<sr_prompt, sr_args, max_retries, backoff_secs, sr_result, sr_error,
                 err_texts, exVars, docVars>>

\* time.sleep(wait), then the next iteration, or the raise that follows the loop
SafeRunSleep ==
  /\ sr_pc = "sleep"
  /\ trace' = Append(trace, SleepEvent(attempt, Wait(backoff_secs, attempt)))
  /\ IF attempt < LastAttempt(max_retries)
     THEN sr_pc' = "invoke" /\ attempt' = attempt + 1 /\ sr_error' = sr_error
     ELSE sr_pc' = "raised" /\ attempt' = attempt
          /\ sr_error' = ExhaustedError(max_retries)
  /\ UNCHANGED <<sr_prompt, sr_args, max_retries, backoff_secs, sr_result,
                 err_texts, exVars, docVars>>

SafeRunStep ==
  \/ SafeRunEnter
  \/ SafeRunInvokeReturns
  \/ SafeRunInvokeRaises
  \/ SafeRunSleep

ExIdle ==
  /\ ex_pc = "idle"
  /\ file_list = <<>>
  /\ item = 0
  /\ data_list = <<>>
  /\ ex_raws = <<>>
  /\ ex_error = NoError

\* one call safe_run(prompt, max_retries, backoff_secs), for every value of the arguments
InitRetry ==
  /\ sr_pc = "call"
  /\ sr_prompt = "a"
  /\ sr_args \in [max_retries : OptArgs(MaxRetriesArg), backoff_secs : OptArgs(MaxBackoffArg)]
  /\ max_retries = 0
  /\ backoff_secs = 0
  /\ attempt = 0
  /\ trace = <<>>
  /\ sr_result = <<>>
  /\ sr_error = NoError
  /\ err_texts = ErrTexts
  /\ ExIdle
  /\ DocIdle

NextRetry == SafeRunStep

SpecRetry == InitRetry /\ [][NextRetry]_vars

(***************************************************************************)
(* Claims about safe_run (SpecRetry).                                      *)
(***************************************************************************)
Invocations(tr) == SelectSeq(tr, LAMBDA e : e.ev = "invoke")

Sleeps(tr) == SelectSeq(tr, LAMBDA e : e.ev = "sleep")

\* the error texts that carry a 429 status or the phrase "rate limit" in some letter case
RateLimitTexts == {Err429, ErrRateLower, ErrRateMixed}

\* the base backoff and the retry limit the caller asked for
AskedBackoff ==
  IF sr_args.backoff_secs = None THEN BACKOFF_SECONDS ELSE sr_args.backoff_secs[1]

AskedMaxRetries ==
  IF sr_args.max_retries = None THEN MAX_RETRIES ELSE sr_args.max_retries[1]

\* the call is within the contract max_retries >= 1
AskedWithinContract == sr_args.max_retries # Some(0)

\* rate-limit failures on attempts 1..k, then a success
FailsThenSucceeds(inv) ==
  /\ inv # <<>>
  /\ inv[Len(inv)].ok
  /\ \A i \in 1..(Len(inv) - 1) : ~inv[i].ok /\ inv[i].text \in RateLimitTexts

AllRateLimited(inv) ==
  /\ inv # <<>>
  /\ \A i \in 1..Len(inv) : ~inv[i].ok /\ inv[i].text \in RateLimitTexts

\* C1: when attempts 1..k fail with a rate-limit error and attempt k+1 succeeds
\* (k < max_retries), safe_run has made exactly k+1 invocations, has slept exactly
\* k times, B*2^0, ..., B*2^(k-1) seconds in that order for the base backoff B it
\* was called with, each sleep between the failed attempt and the next one, and
\* returns the result of attempt k+1.
C1_RetrySequencing ==
  LET inv == Invocations(trace)
      k == Len(inv) - 1
  IN (AskedWithinContract /\ FailsThenSucceeds(inv)) =>
       /\ sr_pc = "returned"
       /\ k < AskedMaxRetries
       /\ Len(trace) = 2 * k + 1
       /\ \A i \in 1..k :
            /\ trace[2 * i - 1].ev = "invoke" /\ trace[2 * i - 1].att = i
            /\ trace[2 * i].ev = "sleep"
            /\ trace[2 * i].secs = AskedBackoff * Pow2(i - 1)
       /\ trace[2 * k + 1].ev = "invoke" /\ trace[2 * k + 1].att = k + 1
       /\ sr_result = inv[k + 1].text

\* C2: with max_retries M >= 1 and every attempt failing with a rate-limit error,
\* safe_run makes exactly M invocations, returns nothing and raises the
\* "retries exhausted" RuntimeError, which is none of the rate-limit errors.
C2_RetryExhaustion ==
  LET inv == Invocations(trace)
  IN AskedWithinContract =>
       /\ Len(inv) <= AskedMaxRetries
       /\ (AllRateLimited(inv) /\ sr_pc \in {"returned", "raised"}) =>
            /\ sr_pc = "raised"
            /\ Len(inv) = AskedMaxRetries
            /\ \A i \in 1..Len(inv) : inv[i].att = i
            /\ sr_result = <<>>
            /\ sr_error = ExhaustedError(AskedMaxRetries)
            /\ \A i \in 1..Len(inv) : sr_error # AgentError(inv[i].text, inv[i].att)
       /\ (sr_pc = "raised" /\ sr_error.type = "RuntimeError") =>
            AllRateLimited(inv) /\ Len(inv) = AskedMaxRetries

C2_Witness ==
  /\ sr_pc = "raised"
  /\ sr_error.type = "RuntimeError"
  /\ sr_args.max_retries = Some(2)
  /\ Len(Invocations(trace)) = 2

\* C3: an attempt (the first or a later one) that fails with an error whose text
\* has neither 429 nor "rate limit" in any letter case ends safe_run at once:
\* that same error is raised, no sleep and no invocation follows it.
C3_NonRetryPassthrough ==
  \A i \in 1..Len(trace) :
    (trace[i].ev = "invoke" /\ ~trace[i].ok /\ trace[i].text \notin RateLimitTexts) =>
      /\ i = Len(trace)
      /\ sr_pc = "raised"
      /\ sr_error = AgentError(trace[i].text, trace[i].att)
      /\ sr_result = <<>>

C3_Witness ==
  /\ sr_pc = "raised"
  /\ sr_error.type = "AgentError"
  /\ sr_error.text = ErrRateHyphen
  /\ sr_error.n = 2
  /\ Len(Sleeps(trace)) = 1

(***************************************************************************)
(* GitHubService.extract_file_metadata                                     *)
(***************************************************************************)
Paths == {"a", "b", "c"}

SeqsUpTo(S, n) == UNION {[1..m -> S] : m \in 0..n}

\* the try/except around json.loads
ParsedOrSentinel(raw, it) ==
  IF JSONDecodeError(raw) THEN Sentinel(raw, it) ELSE Loads(raw)

SafeRunIdle ==
  /\ sr_pc' = "idle"
  /\ max_retries' = 0
  /\ backoff_secs' = 0
  /\ attempt' = 0
  /\ trace' = <<>>
  /\ sr_result' = <<>>
  /\ sr_error' = NoError

\* for item in file_list: raw = self.safe_run(prompt_template.format(...))
ExtractCall ==
  /\ ex_pc = "loop"
  /\ item <= Len(file_list)
  /\ sr_pc = "idle"
  /\ sr_pc' = "call"
  /\ sr_prompt' = file_list[item]
  /\ sr_args' = [max_retries |-> None, backoff_secs |-> None]
  /\ ex_pc' = "run"
  /\ UNCHANGED <<max_retries, backoff_secs, attempt, trace, sr_result, sr_error,
                 err_texts, file_list, item, data_list, ex_raws, ex_error, docVars>>

\* safe_run returned: json.loads or the sentinel, data_list.append(obj)
ExtractParse ==
  /\ ex_pc = "run"
  /\ sr_pc = "returned"
  /\ data_list' = Append(data_list, ParsedOrSentinel(sr_result, file_list[item]))
  /\ ex_raws' = Append(ex_raws, sr_result)
  /\ item' = item + 1
  /\ ex_pc' = "loop"
  /\ SafeRunIdle
  /\ UNCHANGED <<sr_prompt, sr_args, err_texts, file_list, ex_error, docVars>>

\* an except clause that drops the exception and goes on with the next path
ExtractSwallow ==
  /\ ex_pc = "run"
  /\ sr_pc = "raised"
  /\ ex_error' = sr_error
  /\ item' = item + 1
  /\ ex_pc' = "loop"
  /\ SafeRunIdle
  /\ UNCHANGED <<sr_prompt, sr_args, err_texts, file_list, data_list, ex_raws, docVars>>

\* safe_run raised: the exception leaves extract_file_metadata
ExtractRaise ==
  /\ ex_pc = "run"
  /\ sr_pc = "raised"
  /\ ex_error' = sr_error
  /\ ex_pc' = "raised"
  /\ SafeRunIdle
  /\ UNCHANGED <<sr_prompt, sr_args, err_texts, file_list, item, data_list, ex_raws,
                 docVars>>

\* the loop is over: return data_list
ExtractReturn ==
  /\ ex_pc = "loop"
  /\ item > Len(file_list)
  /\ ex_pc' = "returned"
  /\ UNCHANGED <<srVars, file_list, item, data_list, ex_raws, ex_error, docVars>>

ExtractStep ==
  \/ ExtractCall
  \/ ExtractParse
  \/ ExtractRaise
  \/ ExtractReturn

\* one call extract_file_metadata(repo_id, file_list, project_metadata)
InitExtract ==
  /\ sr_pc = "idle"
  /\ sr_prompt = "a"
  /\ sr_args = [max_retries |-> None, backoff_secs |-> None]
  /\ max_retries = 0
  /\ backoff_secs = 0
  /\ attempt = 0
  /\ trace = <<>>
  /\ sr_result = <<>>
  /\ sr_error = NoError
  /\ err_texts = {Err429, ErrTimeout}
  /\ ex_pc = "loop"
  /\ file_list \in SeqsUpTo(Paths, MaxPaths)
  /\ item = 1
  /\ data_list = <<>>
  /\ ex_raws = <<>>
  /\ ex_error = NoError
  /\ DocIdle

NextExtract == ExtractStep \/ SafeRunStep

SpecExtract == InitExtract /\ [][NextExtract]_vars

(***************************************************************************)
(* Claims about extract_file_metadata (SpecExtract).                       *)
(***************************************************************************)
\* the records the JSON answers of the agent stand for
JsonRecords(p) ==
  { FileRecord(p, "doc", <<ClassK>>, <<FuncF>>, <<>>),
    FileRecord(p, "doc", <<>>, <<FuncF>>, <<>>),
    FileRecord("zz", "doc", <<>>, <<>>, <<>>) }

\* the answers of the agent that are no JSON
NonJsonTexts(p) == { <<"Sorry">>, <<"{", "path", p>> }

\* the record the caller must find for the answer raw to the prompt about path p
ExpectedRecord(raw, p, rec) ==
  IF raw \in NonJsonTexts(p)
  THEN rec = [error_parsing_JSON |-> raw, path |-> p, id |-> p]
  ELSE \E r \in JsonRecords(p) : raw = Dumps(r) /\ rec = r

\* C4: extract_file_metadata returns one record per input path, in input order;
\* the record of a path whose answer is no JSON is exactly
\* {error_parsing_JSON: raw, path, id}, every other record is the parsed JSON;
\* a parse failure raises nothing and the remaining files are still processed.
C4_ExtractionResilience ==
  /\ Len(data_list) = Len(ex_raws)
  /\ Len(data_list) <= Len(file_list)
  /\ \A i \in 1..Len(data_list) : ExpectedRecord(ex_raws[i], file_list[i], data_list[i])
  /\ ex_pc = "returned" => Len(data_list) = Len(file_list)
  /\ ex_pc = "raised" => ex_error.type \in {"AgentError", "RuntimeError"}
  /\ (ex_pc \in {"loop", "run"} /\ sr_pc # "raised") => item = Len(data_list) + 1

C4_Witness ==
  /\ ex_pc = "returned"
  /\ Len(file_list) = 2
  /\ ex_raws[1] = <<"Sorry">>
  /\ ex_raws[2] \notin NonJsonTexts(file_list[2])

(***************************************************************************)
(* DocumentationService: the retrieval index.                              *)
(*                                                                         *)
(* A directory is a sequence of path segments.  disk maps every existing   *)
(* index directory to the Chroma collection persisted in it, a sequence of *)
(* documents in the order they were added.  Chroma.from_documents on a     *)
(* directory that already holds a collection adds to that collection.      *)
(***************************************************************************)
\* settings.CHROMA_PERSIST_DIRECTORY, "./chroma_repo_index"
CHROMA_PERSIST_DIRECTORY == <<"chroma_repo_index">>

\* persist_directory of the HTTP front end's service: settings.CHROMA_PERSIST_DIRECTORY
PersistDirectoryShared(repo_id) == CHROMA_PERSIST_DIRECTORY

\* persist_directory of services/documentation_service: "./chroma_repo_index/" + repo_id
PersistDirectoryPerRepo(repo_id) == CHROMA_PERSIST_DIRECTORY \o repo_id

\* create_rag_index: the directory the index of a job is persisted in.  The
\* Inference class uses services/documentation_service.py, the HTTP routes of
\* main.py use documentation_service.py.
PersistDirectory(entry, repo_id) ==
  IF entry = "http" THEN PersistDirectoryShared(repo_id)
  ELSE PersistDirectoryPerRepo(repo_id)

\* Python: obj.get(key, default)
Get(obj, key, default) == IF key \in DOMAIN obj THEN obj[key] ELSE default

\* Document(page_content=..., metadata={path, file_id, doc_type, full_json});
\* owner is the job that added the document (not part of the program's data)
Document(header, file_obj, doc_type, owner) ==
  [page_content |-> <<header, file_obj["path"]>>,
   path |-> file_obj["path"],
   file_id |-> file_obj["id"],
   doc_type |-> doc_type,
   full_json |-> Dumps(file_obj),
   owner |-> owner]

\* a facet document for every file, its list empty or not
FacetDocAlways(file_obj, key, header, owner) ==
  <<Document(header, file_obj, key, owner)>>

\* create_rag_index: if file_obj.get(key, []): documents.append(Document(...))
FacetDoc(file_obj, key, header, owner) ==
  IF Get(file_obj, key, <<>>) # <<>>
  THEN <<Document(header, file_obj, key, owner)>>
  ELSE <<>>

\* create_rag_index: the documents of one file
FileDocs(file_obj, owner) ==
  <<Document("FILE_OVERVIEW:", file_obj, "file_overview", owner)>>
    \o FacetDoc(file_obj, "classes", "CLASSES_IN_FILE:", owner)
    \o FacetDoc(file_obj, "functions", "FUNCTIONS_IN_FILE:", owner)
    \o FacetDoc(file_obj, "examples", "EXAMPLES_IN_FILE:", owner)

\* create_rag_index: the loop over file_objs
CreateDocs(objs, owner) == Flatten([i \in 1..Len(objs) |-> FileDocs(objs[i], owner)])

\* a build that indexes the list fields without a default
HasKeysAllFields(objs) ==
  \A i \in 1..Len(objs) :
    {"path", "id", "classes", "functions", "examples"} \subseteq DOMAIN objs[i]

\* file_obj["path"] and file_obj["id"] raise KeyError on a record without the key
HasKeys(objs) == \A i \in 1..Len(objs) : {"path", "id"} \subseteq DOMAIN objs[i]

RECURSIVE KSubsets(_, _)
KSubsets(S, n) ==
  IF n = 0 THEN {{}}
  ELSE UNION {{T \cup {x} : T \in KSubsets(S \ {x}, n - 1)} : x \in S}

RECURSIVE Ascending(_)
Ascending(S) ==
  IF S = {} THEN <<>>
  ELSE LET x == CHOOSE x \in S : \A y \in S : x <= y
       IN <<x>> \o Ascending(S \ {x})

\* vectorstore.similarity_search(f"FILE_OVERVIEW: {file_path}", k): the k nearest
\* documents of the collection, nearest first.  The embedding is opaque: any k
\* documents may be the nearest ones, and the nearest of all may be any
\* document of the path or a document of another path.  The caller reads only
\* the first document of the path, so the order of the other documents is fixed.
SimilaritySearch(coll, file_path, k) ==
  LET all == 1..Len(coll)
      tops == IF Len(coll) <= k THEN {all}
              ELSE {all \ E : E \in KSubsets(all, Len(coll) - k)}
      Others(top) == {i \in top : coll[i].path # file_path}
      Firsts(top) == (top \ Others(top)) \cup
                     (IF Others(top) = {} THEN {}
                      ELSE {CHOOSE i \in Others(top) : \A m \in Others(top) : i <= m})
  IN IF coll = <<>> THEN {<<>>}
     ELSE { [i \in 1..Cardinality(tf[1]) |->
               coll[(<<tf[2]>> \o Ascending(tf[1] \ {tf[2]}))[i]]] :
              tf \in {x \in tops \X all : x[2] \in Firsts(x[1])} }

\* a lookup that takes the nearest document, whatever its path
ResolveNoFilter(docs, file_path) ==
  IF docs # <<>> /\ docs[1].full_json # <<>>
  THEN Some(Loads(docs[1].full_json))
  ELSE None

\* a lookup that takes the last document with the path
ResolveLast(docs, file_path) ==
  LET file_docs == SelectSeq(docs, LAMBDA d : d.path = file_path)
  IN IF file_docs # <<>> /\ file_docs[Len(file_docs)].full_json # <<>>
     THEN Some(Loads(file_docs[Len(file_docs)].full_json))
     ELSE None

\* get_all_files_from_vectorstore: file_docs = [doc for doc in docs if path matches];
\* json.loads(file_docs[0].metadata['full_json']), or nothing for this path
Resolve(docs, file_path) ==
  LET file_docs == SelectSeq(docs, LAMBDA d : d.path = file_path)
  IN IF file_docs # <<>> /\ file_docs[1].full_json # <<>>
     THEN Some(Loads(file_docs[1].full_json))
     ELSE None

\* Python: dict[key] = value
Put(dict, key, value) ==
  [k \in DOMAIN dict \cup {key} |-> IF k = key THEN value ELSE dict[k]]

(***************************************************************************)
(* DocumentationService._generate_docs_with_chunked_processing             *)
(***************************************************************************)
Min(a, b) == IF a < b THEN a ELSE b

\* Python: seq[i:j]
Slice(seq, i, j) == SubSeq(seq, i + 1, Min(j, Len(seq)))

RECURSIVE RangeFrom(_, _, _)
\* Python: range(i, stop, step)
RangeFrom(i, stop, step) ==
  IF i >= stop THEN <<>> ELSE <<i>> \o RangeFrom(i + step, stop, step)

\* chunks that overlap by one path
FileChunksOverlap(paths, size) ==
  LET starts == RangeFrom(0, Len(paths), size)
  IN [n \in 1..Len(starts) |-> Slice(paths, starts[n], starts[n] + size + 1)]

\* chunks that lose the remainder
FileChunksNoRemainder(paths, size) ==
  LET starts == RangeFrom(0, Len(paths) - size + 1, size)
  IN [n \in 1..Len(starts) |-> Slice(paths, starts[n], starts[n] + size)]

\* the chunks in the reverse order
FileChunksReversed(paths, size) ==
  LET starts == RangeFrom(0, Len(paths), size)
  IN [n \in 1..Len(starts) |->
        Slice(paths, starts[Len(starts) + 1 - n], starts[Len(starts) + 1 - n] + size)]

\* chunks that hold one empty chunk for an empty list of paths
FileChunksEmptyChunk(paths, size) ==
  IF paths = <<>> THEN << <<>> >>
  ELSE [n \in 1..Len(RangeFrom(0, Len(paths), size)) |->
          Slice(paths, (n - 1) * size, (n - 1) * size + size)]

\* [file_paths[i:i + chunk_size] for i in range(0, len(file_paths), chunk_size)]
FileChunks(paths, size) ==
  LET starts == RangeFrom(0, Len(paths), size)
  IN [n \in 1..Len(starts) |-> Slice(paths, starts[n], starts[n] + size)]

\* a fallback that skips the last record
FallbackSkipsLast(data, objs, paths) ==
  LET missing == {paths[i] : i \in 1..Len(paths)} \ DOMAIN data
      keep == {i \in 1..(Len(objs) - 1) : objs[i]["path"] \in missing}
  IN [k \in DOMAIN data \cup {objs[i]["path"] : i \in keep} |->
        IF k \in DOMAIN data THEN data[k]
        ELSE objs[CHOOSE i \in keep :
                    objs[i]["path"] = k /\ \A m \in keep : objs[m]["path"] = k => m <= i]]

RECURSIVE AddMissing(_, _, _, _)
AddMissing(data, objs, missing, i) ==
  IF i > Len(objs) THEN data
  ELSE AddMissing(IF objs[i]["path"] \in missing
                  THEN Put(data, objs[i]["path"], objs[i]) ELSE data,
                  objs, missing, i + 1)

\* a fallback that puts the passed record of every path over the one found
FallbackOverwrites(data, objs, paths) ==
  AddMissing(data, objs, {paths[i] : i \in 1..Len(paths)}, 1)

\* missing_files = set(file_paths) - set(all_file_data.keys()); the loop that
\* adds the passed record of every missing path
Fallback(data, objs, paths) ==
  AddMissing(data, objs, {paths[i] : i \in 1..Len(paths)} \ DOMAIN data, 1)

RECURSIVE Dedup(_)
\* the keys of a dict filled in the order of seq
Dedup(seq) ==
  IF seq = <<>> THEN <<>>
  ELSE LET front == Dedup(SubSeq(seq, 1, Len(seq) - 1))
           last == seq[Len(seq)]
       IN IF \E i \in 1..Len(front) : front[i] = last THEN front
          ELSE Append(front, last)

\* the lines of one class of a file block
RenderClass(cls) ==
  <<"  - ", cls["name"], Get(cls, "docstring_or_javadoc", "No description")>>
    \o Flatten([i \in 1..Len(Get(cls, "methods", <<>>)) |->
         <<"    * ", cls["methods"][i]["name"],
           Get(cls["methods"][i], "docstring_or_comment", "No description")>>])

\* the lines of one function of a file block
RenderFunction(func) ==
  <<"  - ", func["name"], Get(func, "docstring_or_comment", "No description"),
    "    Signature: ", Get(func, "signature", "Unknown")>>

\* a block that always has both subsection headers
RenderFileAllSections(file_path, file_obj) ==
  <<"--- FILE: ", file_path, "Module Docstring: ",
    Get(file_obj, "module_docstring_or_header", "None")>>
    \o <<"Classes:">>
    \o Flatten([i \in 1..Len(Get(file_obj, "classes", <<>>)) |->
                  RenderClass(file_obj["classes"][i])])
    \o <<"Functions:">>
    \o Flatten([i \in 1..Len(Get(file_obj, "functions", <<>>)) |->
                  RenderFunction(file_obj["functions"][i])])

\* the block of one file in formatted_data
RenderFile(file_path, file_obj) ==
  <<"--- FILE: ", file_path, "Module Docstring: ",
    Get(file_obj, "module_docstring_or_header", "None")>>
    \o (IF Get(file_obj, "classes", <<>>) # <<>>
        THEN <<"Classes:">> \o
             Flatten([i \in 1..Len(file_obj["classes"]) |->
                        RenderClass(file_obj["classes"][i])])
        ELSE <<>>)
    \o (IF Get(file_obj, "functions", <<>>) # <<>>
        THEN <<"Functions:">> \o
             Flatten([i \in 1..Len(file_obj["functions"]) |->
                        RenderFunction(file_obj["functions"][i])])
        ELSE <<>>)

\* the data of every chunk put in every prompt
FormattedDataAll(chunk, data) ==
  LET keys == SelectSeq(<<"a", "b", "c", "zz">>, LAMBDA k : k \in DOMAIN data)
  IN Flatten([i \in 1..Len(keys) |-> RenderFile(keys[i], data[keys[i]])])

\* chunk_data = the resolved records of the chunk's paths; formatted_data
FormattedData(chunk, data) ==
  LET keys == SelectSeq(Dedup(chunk), LAMBDA k : k \in DOMAIN data)
  IN Flatten([i \in 1..Len(keys) |-> RenderFile(keys[i], data[keys[i]])])

\* a join that drops empty parts
JoinDropsEmpty(parts) ==
  LET kept == SelectSeq(parts, LAMBDA x : x # <<>>)
  IN Flatten([i \in 1..Len(kept) |->
                IF i = 1 THEN kept[i] ELSE <<"\n\n">> \o kept[i]])

\* "\n\n".join(documentation_parts)
Join(parts) ==
  Flatten([i \in 1..Len(parts) |-> IF i = 1 THEN parts[i] ELSE <<"\n\n">> \o parts[i]])

\* result.content: the texts the LLM may answer a chunk prompt with
LlmDocs == { <<"# Docs">>, <<>> }

(***************************************************************************)
(* The steps of a documentation job.  entry "inference" is Inference       *)
(* (inference.py, services/documentation_service.py), entry "http" is a    *)
(* route of main.py (documentation_service.py).                            *)
(***************************************************************************)
Entries == {"inference", "http"}

NewJob(entry, repo_id, objs, chunk_arg) ==
  [OffJob EXCEPT !.pc = "new", !.entry = entry, !.repo_id = repo_id,
                 !.file_objs = objs, !.chunk_arg = chunk_arg]

KeyError(key) == [type |-> "KeyError", text |-> <<key>>, n |-> 0]

\* the directories at or below dir
Below(dir) ==
  {d \in DOMAIN disk : Len(d) >= Len(dir) /\ SubSeq(d, 1, Len(dir)) = dir}

\* main.py: the routes are coroutines that never await, so the event loop runs
\* one request to its end before it starts the next; the jobs of Inference
\* objects are not ordered
Runnable(j) ==
  job[j].entry = "http" =>
    \A k \in Jobs \ {j} :
      job[k].entry = "http" => job[k].pc \in {"new", "done", "failed"}

\* create_rag_index(file_objs, repo_id): the documents of every file, added to
\* the collection persisted in the job's directory
CreateRagIndex(j) ==
  /\ job[j].pc = "new"
  /\ Runnable(j)
  /\ LET dir == PersistDirectory(job[j].entry, job[j].repo_id)
         docs == CreateDocs(job[j].file_objs, j)
         old == IF dir \in DOMAIN disk THEN disk[dir] ELSE <<>>
     IN IF HasKeys(job[j].file_objs)
        THEN /\ disk' = [d \in DOMAIN disk \cup {dir} |->
                           IF d = dir THEN old \o docs ELSE disk[d]]
             /\ job' = [job EXCEPT ![j].pc = "built", ![j].vectorstore = dir,
                                   ![j].built = docs]
        ELSE /\ disk' = disk
             /\ job' = [job EXCEPT ![j].pc = "failed", ![j].error = KeyError("path")]
  /\ UNCHANGED <<srVars, exVars>>

\* _generate_docs_with_chunked_processing, entered with a vectorstore:
\* chunk_size = chunk_size or settings.CHUNK_SIZE; file_paths; all_file_data = {}
SynthEnter(j) ==
  /\ job[j].pc = "built"
  /\ job' = [job EXCEPT
       ![j].pc = "query",
       ![j].chunk_size = OrDefault(job[j].chunk_arg, CHUNK_SIZE),
       ![j].file_paths = [i \in 1..Len(job[j].file_objs) |-> job[j].file_objs[i]["path"]],
       ![j].all_file_data = <<>>,
       ![j].qi = 1]
  /\ UNCHANGED <<disk, srVars, exVars>>

\* file_query = f"FILE_OVERVIEW: {file_path}"
FileQuery(file_path) == <<"FILE_OVERVIEW: ", file_path>>

\* get_all_files_from_vectorstore, one iteration of the loop over file_paths:
\* docs = vectorstore.similarity_search(f"FILE_OVERVIEW: {file_path}", k=10)
QuerySearch(j) ==
  /\ job[j].pc = "query"
  /\ job[j].qi <= Len(job[j].file_paths)
  /\ job[j].vectorstore \in DOMAIN disk
  /\ \E docs \in SimilaritySearch(disk[job[j].vectorstore],
                                   job[j].file_paths[job[j].qi], TopK) :
       job' = [job EXCEPT
         ![j].pc = "searched",
         ![j].last_query = FileQuery(job[j].file_paths[job[j].qi]),
         ![j].last_docs = docs]
  /\ UNCHANGED <<disk, srVars, exVars>>

\* the rest of the iteration: the documents of the path, the record of the first
QueryResolve(j) ==
  /\ job[j].pc = "searched"
  /\ LET file_path == job[j].file_paths[job[j].qi]
         hit == Resolve(job[j].last_docs, file_path)
     IN job' = [job EXCEPT
          ![j].pc = "query",
          ![j].all_file_data =
             IF hit # None THEN Put(job[j].all_file_data, file_path, hit[1])
             ELSE job[j].all_file_data,
          ![j].absent = IF hit # None THEN job[j].absent \ {file_path}
                        ELSE job[j].absent \cup ({file_path} \ DOMAIN job[j].all_file_data),
          ![j].last_query = <<>>,
          ![j].last_docs = <<>>,
          ![j].qi = job[j].qi + 1]
  /\ UNCHANGED <<disk, srVars, exVars>>

\* a fallback loop that takes the records out of the list passed in
SynthChunksDrains(j) ==
  /\ job[j].pc = "query"
  /\ job[j].qi > Len(job[j].file_paths)
  /\ job' = [job EXCEPT
       ![j].pc = "chunks",
       ![j].all_file_data = Fallback(job[j].all_file_data, job[j].file_objs,
                                     job[j].file_paths),
       ![j].file_objs = SelectSeq(job[j].file_objs,
                                  LAMBDA o : o["path"] \notin job[j].absent),
       ![j].file_chunks = FileChunks(job[j].file_paths, job[j].chunk_size),
       ![j].documentation_parts = <<>>,
       ![j].ci = 1]
  /\ UNCHANGED <<disk, srVars, exVars>>

\* the records of the missing paths are added, the paths are cut into chunks
SynthChunks(j) ==
  /\ job[j].pc = "query"
  /\ job[j].qi > Len(job[j].file_paths)
  /\ job' = [job EXCEPT
       ![j].pc = "chunks",
       ![j].all_file_data = Fallback(job[j].all_file_data, job[j].file_objs,
                                     job[j].file_paths),
       ![j].file_chunks = FileChunks(job[j].file_paths, job[j].chunk_size),
       ![j].documentation_parts = <<>>,
       ![j].ci = 1]
  /\ UNCHANGED <<disk, srVars, exVars>>

\* one chunk: formatted_data, self.llm.invoke(messages) returns, the part is kept
SynthInvokeReturns(j) ==
  /\ job[j].pc = "chunks"
  /\ job[j].ci <= Len(job[j].file_chunks)
  /\ \E content \in LlmDocs :
       job' = [job EXCEPT
         ![j].sent = Append(job[j].sent,
                            FormattedData(job[j].file_chunks[job[j].ci],
                                          job[j].all_file_data)),
         ![j].documentation_parts = Append(job[j].documentation_parts, content),
         ![j].llm_outs = Append(job[j].llm_outs, content),
         ![j].ci = job[j].ci + 1]
  /\ UNCHANGED <<disk, srVars, exVars>>

\* an except clause around the invocation that notes the error and goes on
SynthInvokeSkips(j) ==
  /\ job[j].pc = "chunks"
  /\ job[j].ci <= Len(job[j].file_chunks)
  /\ \E text \in err_texts :
       job' = [job EXCEPT
         ![j].sent = Append(job[j].sent,
                            FormattedData(job[j].file_chunks[job[j].ci],
                                          job[j].all_file_data)),
         ![j].ci = job[j].ci + 1,
         ![j].error = AgentError(text, job[j].ci)]
  /\ UNCHANGED <<disk, srVars, exVars>>

\* a caller that tears the index down in a finally clause
SynthInvokeRaisesCleansUp(j) ==
  /\ job[j].pc = "chunks"
  /\ job[j].ci <= Len(job[j].file_chunks)
  /\ \E text \in err_texts :
       job' = [job EXCEPT
         ![j].sent = Append(job[j].sent,
                            FormattedData(job[j].file_chunks[job[j].ci],
                                          job[j].all_file_data)),
         ![j].pc = "failed",
         ![j].error = AgentError(text, job[j].ci)]
  /\ disk' = [d \in DOMAIN disk \ Below(job[j].vectorstore) |-> disk[d]]
  /\ UNCHANGED <<srVars, exVars>>

\* one chunk: self.llm.invoke(messages) raises, the exception leaves the synthesizer
SynthInvokeRaises(j) ==
  /\ job[j].pc = "chunks"
  /\ job[j].ci <= Len(job[j].file_chunks)
  /\ \E text \in err_texts :
       job' = [job EXCEPT
         ![j].sent = Append(job[j].sent,
                            FormattedData(job[j].file_chunks[job[j].ci],
                                          job[j].all_file_data)),
         ![j].pc = "failed",
         ![j].error = AgentError(text, job[j].ci)]
  /\ UNCHANGED <<disk, srVars, exVars>>

\* return "\n\n".join(documentation_parts)
SynthReturn(j) ==
  /\ job[j].pc = "chunks"
  /\ job[j].ci > Len(job[j].file_chunks)
  /\ job' = [job EXCEPT ![j].pc = "joined", ![j].doc = Join(job[j].documentation_parts)]
  /\ UNCHANGED <<disk, srVars, exVars>>

\* Inference: self.doc_service.delete_rag_index(self.repo.repo_id), then the
\* document is returned.  shutil.rmtree raises on a directory that does not
\* exist; delete_rag_index catches it.
DeleteRagIndex(j) ==
  /\ job[j].pc = "joined"
  /\ job[j].entry = "inference"
  /\ LET rag_path == PersistDirectoryPerRepo(job[j].repo_id)
     IN IF rag_path \in DOMAIN disk
        THEN /\ disk' = [d \in DOMAIN disk \ Below(rag_path) |-> disk[d]]
             /\ job' = [job EXCEPT
                  ![j].pc = "done",
                  ![j].removed = UNION {{disk[d][i] : i \in 1..Len(disk[d])} :
                                          d \in Below(rag_path)}]
        ELSE /\ disk' = disk
             /\ job' = [job EXCEPT ![j].pc = "done"]
  /\ UNCHANGED <<srVars, exVars>>

\* main.py: the response is returned; the index is left where it is
HttpRespond(j) ==
  /\ job[j].pc = "joined"
  /\ job[j].entry = "http"
  /\ job' = [job EXCEPT ![j].pc = "done"]
  /\ UNCHANGED <<disk, srVars, exVars>>

(***************************************************************************)
(* One job from the index build to the end (SpecSynth).  The job's         *)
(* directory may hold the index an earlier job left behind: a failed job   *)
(* is not torn down, and the HTTP routes never tear down.                  *)
(***************************************************************************)
Repo1 == <<"o", "r1">>

Repo2 == <<"o", "r2">>

\* the records a file list is made of
RecordsCat ==
  { FileRecord("a", "doc", <<ClassK>>, <<>>, <<>>),
    FileRecord("b", "doc", <<>>, <<FuncF>>, <<>>),
    Sentinel(<<"Sorry">>, "c") }

\* the file lists of the jobs that ran before: none, one with eight documents
\* of a file "d", one with an older record of path "a"
EarlierLists ==
  { <<>>,
    << FileRecord("d", "old", <<ClassK>>, <<FuncF>>, <<ExampleE>>),
       FileRecord("d", "old", <<ClassK>>, <<>>, <<ExampleE>>),
       FileRecord("d", "old", <<>>, <<>>, <<>>) >>,
    << FileRecord("a", "old", <<>>, <<FuncF>>, <<>>) >> }

DocIdleSr ==
  /\ sr_pc = "idle"
  /\ sr_prompt = "a"
  /\ sr_args = [max_retries |-> None, backoff_secs |-> None]
  /\ max_retries = 0
  /\ backoff_secs = 0
  /\ attempt = 0
  /\ trace = <<>>
  /\ sr_result = <<>>
  /\ sr_error = NoError
  /\ err_texts = {Err429}
  /\ ExIdle

InitSynth ==
  /\ DocIdleSr
  /\ \E entry \in Entries, objs \in SeqsUpTo(RecordsCat, MaxFiles),
        chunk_arg \in OptArgs(MaxChunkArg), earlier \in EarlierLists :
       /\ Len(CreateDocs(objs, 1)) + Len(CreateDocs(earlier, 0)) <= MaxDocs
       /\ job = [j \in Jobs |->
                   IF j = 1 THEN NewJob(entry, Repo1, objs, chunk_arg) ELSE OffJob]
       /\ disk = IF earlier = <<>> THEN <<>>
                 ELSE [d \in {PersistDirectory(entry, Repo1)} |-> CreateDocs(earlier, 0)]

JobStep(j) ==
  \/ CreateRagIndex(j)
  \/ SynthEnter(j)
  \/ QuerySearch(j)
  \/ QueryResolve(j)
  \/ SynthChunks(j)
  \/ SynthInvokeReturns(j)
  \/ SynthInvokeRaises(j)
  \/ SynthReturn(j)
  \/ DeleteRagIndex(j)
  \/ HttpRespond(j)

NextSynth == \E j \in Jobs : JobStep(j)

SpecSynth == InitSynth /\ [][NextSynth]_vars

(***************************************************************************)
(* create_rag_index alone, on every shape of record (SpecBuild).           *)
(***************************************************************************)
Lists(x) == {<<>>, <<x>>}

\* every FileMetadata record of path p, each list empty or not, and the sentinel
ShapesCat ==
  { FileRecord(p, "doc", c, f, e) :
      p \in {"a"}, c \in Lists(ClassK), f \in Lists(FuncF), e \in Lists(ExampleE) }
  \cup { FileRecord("b", "doc", <<>>, <<FuncF>>, <<>>), Sentinel(<<"Sorry">>, "c") }

InitBuild ==
  /\ DocIdleSr
  /\ \E entry \in Entries, objs \in SeqsUpTo(ShapesCat, MaxPaths) :
       job = [j \in Jobs |-> IF j = 1 THEN NewJob(entry, Repo1, objs, None) ELSE OffJob]
  /\ disk = <<>>

NextBuild == \E j \in Jobs : CreateRagIndex(j)

SpecBuild == InitBuild /\ [][NextBuild]_vars

(***************************************************************************)
(* Two jobs for two repositories, their steps interleaved (SpecIndex).     *)
(***************************************************************************)
IndexCat ==
  { FileRecord("a", "doc", <<ClassK>>, <<FuncF>>, <<ExampleE>>),
    FileRecord("a", "hdr", <<>>, <<>>, <<>>) }

InitIndex ==
  /\ DocIdleSr
  /\ \E e1 \in Entries, e2 \in Entries,
        objs1 \in [1..1 -> IndexCat], objs2 \in [1..1 -> IndexCat] :
       job = [j \in Jobs |-> IF j = 1 THEN NewJob(e1, Repo1, objs1, None)
                             ELSE NewJob(e2, Repo2, objs2, None)]
  /\ disk = <<>>

NextIndex == \E j \in Jobs : JobStep(j)

SpecIndex == InitIndex /\ [][NextIndex]_vars

(***************************************************************************)
(* Properties of the synthesizer (SpecSynth).                              *)
(***************************************************************************)
\* the chunk size the caller asks for; settings.CHUNK_SIZE when none is given
AskedChunkSize(j) ==
  IF job[j].chunk_arg = None THEN CHUNK_SIZE ELSE job[j].chunk_arg[1]

CeilDiv(n, c) == (n + c - 1) \div c

\* the paths of the file list passed to the synthesizer
InputPaths(j) == [i \in 1..Len(job[j].file_objs) |-> job[j].file_objs[i]["path"]]

Distinct(seq) == \A i, k \in 1..Len(seq) : seq[i] = seq[k] => i = k

Elements(seq) == {seq[i] : i \in 1..Len(seq)}

\* the job has cut its paths into chunks
Chunked(j) ==
  \/ job[j].pc \in {"chunks", "joined", "done"}
  \/ job[j].pc = "failed" /\ job[j].error.type = "AgentError"

\* C5: for N paths and a chunk size C > 0 the synthesizer makes ceil(N/C)
\* chunks, each of 1..C paths, all but the last of exactly C; the chunks put
\* end to end are the input path list, and every input path is in exactly one
\* chunk.
C5_ChunkCoverage ==
  \A j \in Jobs : (Chunked(j) /\ AskedChunkSize(j) > 0) =>
    LET N == Len(job[j].file_objs)
        C == AskedChunkSize(j)
        chunks == job[j].file_chunks
    IN /\ Len(chunks) = CeilDiv(N, C)
       /\ \A n \in 1..Len(chunks) :
            /\ Len(chunks[n]) \in 1..C
            /\ n < Len(chunks) => Len(chunks[n]) = C
       /\ Flatten(chunks) = InputPaths(j)
       /\ \A i \in 1..N :
            Cardinality({nk \in (1..Len(chunks)) \X (1..C) :
                           (nk[1] - 1) * C + nk[2] = i /\ nk[2] <= Len(chunks[nk[1]])}) = 1
       /\ Distinct(InputPaths(j)) =>
            \A p \in Elements(InputPaths(j)) :
              Cardinality({n \in 1..Len(chunks) : p \in Elements(chunks[n])}) = 1

C5_Witness ==
  \E j \in Jobs :
    /\ job[j].pc = "chunks"
    /\ Len(job[j].file_objs) = 3
    /\ Distinct(InputPaths(j))
    /\ job[j].chunk_arg = Some(2)
    /\ Len(job[j].file_chunks) = 2
    /\ Len(job[j].file_chunks[2]) = 1

\* the paths of the file blocks of a prompt's data, in order
FilesIn(data) ==
  LET at == {i \in 1..Len(data) : data[i] = "--- FILE: "}
  IN [n \in 1..Cardinality(at) |-> data[Ascending(at)[n] + 1]]

RECURSIVE BlankLineJoined(_)
BlankLineJoined(outs) ==
  IF outs = <<>> THEN <<>>
  ELSE IF Len(outs) = 1 THEN outs[1]
  ELSE BlankLineJoined(SubSeq(outs, 1, Len(outs) - 1)) \o <<"\n\n">> \o outs[Len(outs)]

\* C6: a synthesizer that returns has invoked the LLM ceil(N/C) times, the
\* n-th time with the data of the files of the n-th chunk only (23 files with
\* C = 10: three calls, for 10, 10 and 3 files), and returns the answers in
\* chunk order with one blank line between them, none dropped or merged.
C6_OneCallPerChunk ==
  /\ LET sizes == FileChunks([i \in 1..23 |-> i], 10)
     IN [n \in 1..Len(sizes) |-> Len(sizes[n])] = <<10, 10, 3>>
  /\ \A j \in Jobs : (job[j].pc \in {"joined", "done"} /\ AskedChunkSize(j) > 0) =>
       LET N == Len(job[j].file_objs)
           C == AskedChunkSize(j)
       IN /\ Len(job[j].sent) = CeilDiv(N, C)
          /\ Len(job[j].llm_outs) = CeilDiv(N, C)
          /\ \A n \in 1..Len(job[j].sent) :
               LET chunk == SubSeq(InputPaths(j), (n - 1) * C + 1, Min(n * C, N))
               IN /\ Elements(FilesIn(job[j].sent[n])) = Elements(chunk)
                  /\ Distinct(chunk) => FilesIn(job[j].sent[n]) = chunk
          /\ job[j].doc = BlankLineJoined(job[j].llm_outs)

C6_Witness ==
  \E j \in Jobs :
    /\ job[j].pc = "joined"
    /\ Len(job[j].file_objs) = 3
    /\ job[j].chunk_arg = Some(2)
    /\ job[j].llm_outs = << <<>>, <<"# Docs">> >>
    /\ job[j].doc = <<"\n\n", "# Docs">>

\* C7: for a file list of N records with distinct paths, whatever paths the
\* index lookup finds nothing for, the resolved map has exactly the N input
\* paths as keys and maps each path the lookup found nothing for to the record
\* of that path in the file list; a path not found raises no error.
C7_ReconciliationCompleteness ==
  \A j \in Jobs : Distinct(InputPaths(j)) =>
    /\ Chunked(j) =>
         /\ DOMAIN job[j].all_file_data = Elements(InputPaths(j))
         /\ Cardinality(DOMAIN job[j].all_file_data) = Len(job[j].file_objs)
         /\ \A i \in 1..Len(job[j].file_objs) :
              InputPaths(j)[i] \in job[j].absent =>
                job[j].all_file_data[InputPaths(j)[i]] = job[j].file_objs[i]
    /\ job[j].absent # {} => job[j].pc # "failed" \/ job[j].error.type = "AgentError"
    /\ job[j].pc = "failed" /\ job[j].error.type = "AgentError" => Len(job[j].sent) >= 1

C7_Witness ==
  \E j \in Jobs :
    /\ job[j].pc = "chunks"
    /\ Len(job[j].file_objs) = 2
    /\ Distinct(InputPaths(j))
    /\ Cardinality(job[j].absent) = 1
    /\ Cardinality(DOMAIN job[j].all_file_data) = 2

\* C9: the lookup of a path searches with "FILE_OVERVIEW: <path>", takes the
\* 10 nearest documents (all of them when the collection holds fewer), keeps
\* those whose stored path equals the path, and resolves the path to the
\* record read from the full_json of the first kept document; when none of
\* the documents has the path the lookup adds nothing for it, and the record
\* of another path is never resolved for it.
C9_IndexQuery ==
  [][\A j \in Jobs : (job[j].pc = "searched" /\ job'[j].pc = "query") =>
       LET file_path == job[j].file_paths[job[j].qi]
           coll == disk[job[j].vectorstore]
           docs == job[j].last_docs
           kept == SelectSeq(docs, LAMBDA d : d.path = file_path)
           before == job[j].all_file_data
           after == job'[j].all_file_data
       IN /\ job[j].last_query = <<"FILE_OVERVIEW: ", file_path>>
          /\ Len(docs) = Min(10, Len(coll))
          /\ Elements(docs) \subseteq Elements(coll)
          /\ \A k \in DOMAIN before \ {file_path} : k \in DOMAIN after /\ after[k] = before[k]
          /\ IF kept # <<>>
             THEN /\ DOMAIN after = DOMAIN before \cup {file_path}
                  /\ after[file_path] = Loads(kept[1].full_json)
                  /\ after[file_path]["path"] = file_path
             ELSE after = before
     ]_vars

C9_Witness ==
  \E j \in Jobs :
    /\ job[j].pc = "query"
    /\ job[j].qi = 3
    /\ job[j].file_paths = <<"b", "c">>
    /\ DOMAIN job[j].all_file_data = {"b"}
    /\ job[j].all_file_data["b"]["module_docstring_or_header"] = "doc"
    /\ job[j].absent = {"c"}

(***************************************************************************)
(* Properties of create_rag_index (SpecBuild).                             *)
(***************************************************************************)
\* the facets of a record whose list is there and not empty
NonEmptyFacets(file_obj) ==
  {key \in {"classes", "functions", "examples"} :
     key \in DOMAIN file_obj /\ file_obj[key] # <<>>}

\* the statement of C8, the doc_type of the overview document being overview
FacetConditionality(overview) ==
  \A j \in Jobs : job[j].pc = "built" =>
    LET objs == job[j].file_objs
        built == job[j].built
    IN /\ disk[job[j].vectorstore] = built
       /\ \A i \in 1..Len(objs) :
            LET mine == SelectSeq(built, LAMBDA d : Loads(d.full_json) = objs[i])
                copies == Cardinality({k \in 1..Len(objs) : objs[k] = objs[i]})
                facets == NonEmptyFacets(objs[i])
            IN /\ Len(mine) = copies * (1 + Cardinality(facets))
               /\ Len(mine) \in copies..(4 * copies)
               /\ Len(SelectSeq(mine, LAMBDA d : d.doc_type = overview)) = copies
               /\ \A key \in {"classes", "functions", "examples"} :
                    Len(SelectSeq(mine, LAMBDA d : d.doc_type = key)) =
                      IF key \in facets THEN copies ELSE 0
       /\ \A n \in 1..Len(built) :
            /\ built[n].doc_type \in {overview, "classes", "functions", "examples"}
            /\ \E i \in 1..Len(objs) :
                 /\ Loads(built[n].full_json) = objs[i]
                 /\ built[n].path = objs[i]["path"]
                 /\ built[n].file_id = objs[i]["id"]
       /\ objs = <<FileRecord("b", "doc", <<>>, <<FuncF>>, <<>>)>> => Len(built) = 2

\* C8 as stated: create_rag_index emits for every record one overview document
\* and one document for each of classes, functions, examples whose list is not
\* empty (1 to 4 documents; functions alone gives 2); every document carries
\* the path, the id, a doc_type in {overview, classes, functions, examples}
\* and the record serialized as full_json.
C8_FacetConditionality == FacetConditionality("overview")

\* C8 amended: the same, the doc_type of the overview document being
\* file_overview.
C8_FacetConditionalityFileOverview == FacetConditionality("file_overview")

C8_Witness ==
  \E j \in Jobs :
    /\ job[j].pc = "built"
    /\ job[j].file_objs = << FileRecord("b", "doc", <<>>, <<FuncF>>, <<>>),
                             FileRecord("a", "doc", <<ClassK>>, <<FuncF>>, <<ExampleE>>) >>
    /\ Len(job[j].built) = 6
    /\ job[j].built[2].doc_type = "functions"

(***************************************************************************)
(* Properties of two jobs (SpecIndex).                                     *)
(***************************************************************************)
\* C10: two jobs with different repository identifiers persist their indexes
\* in different places, whatever the order of their steps: a query of one job
\* never returns a document the other built, and the teardown of one job never
\* removes a document of the other.
C10_NamespaceIsolation ==
  \A j \in Jobs : \A k \in Jobs \ {j} :
    job[j].repo_id # job[k].repo_id =>
      /\ (job[j].vectorstore # <<>> /\ job[k].vectorstore # <<>>) =>
           job[j].vectorstore # job[k].vectorstore
      /\ \A i \in 1..Len(job[j].last_docs) : job[j].last_docs[i].owner = j
      /\ \A d \in job[j].removed : d.owner = j

(***************************************************************************)
(* The end of a job (SpecSynth).                                           *)
(***************************************************************************)
\* C11: when a job has returned its output, the persisted index storage built
\* for it no longer exists.
C11_TeardownOnSuccess ==
  \A j \in Jobs :
    job[j].pc = "done" => job[j].vectorstore \notin DOMAIN disk

(***************************************************************************)
(* DocumentationService.generate_html_docs (SpecHtml).  The job holds the  *)
(* markdown document; entry "inference" converts it with                   *)
(* services/documentation_service.py, entry "http" with                    *)
(* documentation_service.py.                                               *)
(***************************************************************************)
\* the system turn of the HTML prompt
HtmlSystem == "You are an agent really good at HTML and CSS."

\* prompt.format_messages(markdown_data=markdown_content)
HtmlMessages(markdown_content) ==
  [system |-> HtmlSystem,
   human |-> <<"Convert this markdown data to HTML:\n\n">> \o markdown_content]

\* Templates has html_docs_template and no html_template
TemplateNames == {"readme_template", "api_docs_template", "html_docs_template"}

AttributeError(name) == [type |-> "AttributeError", text |-> <<name>>, n |-> 0]

\* result.content: the texts the LLM may answer the HTML prompt with
LlmHtml == { <<"<html>">>, <<"Here is the page:", "<html>">>, <<>> }

\* services/documentation_service.py: html_template = templates.html_template
HtmlTemplateMissing(j) ==
  /\ job[j].pc = "done"
  /\ job[j].entry = "inference"
  /\ "html_template" \notin TemplateNames
  /\ job' = [job EXCEPT ![j].pc = "failed",
                        ![j].error = AttributeError("html_template")]
  /\ UNCHANGED <<disk, srVars, exVars>>

\* the template is there (documentation_service.py has it inline):
\* messages, self.llm.invoke(messages) returns, return result.content
HtmlInvokeReturns(j) ==
  /\ job[j].pc = "done"
  /\ job[j].entry = "http" \/ "html_template" \in TemplateNames
  /\ \E content \in LlmHtml :
       job' = [job EXCEPT ![j].pc = "html",
                          ![j].html_messages = HtmlMessages(job[j].doc),
                          ![j].html_calls = job[j].html_calls + 1,
                          ![j].html = content]
  /\ UNCHANGED <<disk, srVars, exVars>>

\* self.llm.invoke(messages) raises, the exception leaves generate_html_docs
HtmlInvokeRaises(j) ==
  /\ job[j].pc = "done"
  /\ job[j].entry = "http" \/ "html_template" \in TemplateNames
  /\ \E text \in err_texts :
       job' = [job EXCEPT ![j].pc = "failed",
                          ![j].html_messages = HtmlMessages(job[j].doc),
                          ![j].html_calls = job[j].html_calls + 1,
                          ![j].error = AgentError(text, 1)]
  /\ UNCHANGED <<disk, srVars, exVars>>

\* the markdown texts handed to the conversion
Markdowns == SeqsUpTo({"# Docs", "\n\n", "text"}, MaxMarkdown)

InitHtml ==
  /\ DocIdleSr
  /\ \E entry \in Entries, md \in Markdowns :
       job = [j \in Jobs |->
                IF j = 1 THEN [NewJob(entry, Repo1, <<>>, None) EXCEPT
                                 !.pc = "done", !.doc = md]
                ELSE OffJob]
  /\ disk = <<>>

NextHtml ==
  \E j \in Jobs :
    \/ HtmlTemplateMissing(j)
    \/ HtmlInvokeReturns(j)
    \/ HtmlInvokeRaises(j)

SpecHtml == InitHtml /\ [][NextHtml]_vars

\* C12: generate_html_docs performs exactly one LLM invocation, made of the
\* fixed HTML/CSS system turn and the markdown as the human turn, and returns
\* the text of that invocation unchanged; when the invocation succeeds the
\* conversion succeeds, so only a failing invocation fails it.
C12_FormatConverter ==
  \A j \in Jobs :
    /\ job[j].pc \in {"html", "failed"} =>
         /\ job[j].html_calls = 1
         /\ job[j].html_messages.system = HtmlSystem
         /\ job[j].html_messages.human =
              <<"Convert this markdown data to HTML:\n\n">> \o job[j].doc
    /\ job[j].pc = "html" => job[j].html \in LlmHtml
    /\ job[j].pc = "failed" => job[j].error.type = "AgentError"

(***************************************************************************)
(* _generate_docs_with_chunked_processing called with vectorstore = None   *)
(* (SpecNoIndex): generate_readme(file_objs) or generate_api_docs(file_objs)*)
(* of a DocumentationService, with no index passed.                        *)
(***************************************************************************)
TypeError(name) == [type |-> "TypeError", text |-> <<name>>, n |-> 0]

\* the locals set before the lookups (as in SynthEnter); existed records
\* whether the job's own index directory was there at the call
EnterLocals(j, dir) ==
  [job[j] EXCEPT
     !.pc = "query",
     !.vectorstore = dir,
     !.existed = PersistDirectory(job[j].entry, job[j].repo_id) \in DOMAIN disk,
     !.chunk_size = OrDefault(job[j].chunk_arg, CHUNK_SIZE),
     !.file_paths = [i \in 1..Len(job[j].file_objs) |-> job[j].file_objs[i]["path"]],
     !.all_file_data = <<>>,
     !.qi = 1]

\* vectorstore = Chroma(persist_directory=settings.CHROMA_PERSIST_DIRECTORY, ...)
\* returns: the collection of that directory, created empty when there is none
SynthOpenReturns(j) ==
  /\ job[j].pc = "direct"
  /\ LET dir == CHROMA_PERSIST_DIRECTORY
     IN /\ disk' = [d \in DOMAIN disk \cup {dir} |->
                      IF d \in DOMAIN disk THEN disk[d] ELSE <<>>]
        /\ job' = [job EXCEPT ![j] = EnterLocals(j, dir)]
  /\ UNCHANGED <<srVars, exVars>>

\* Chroma(...) raises: except Exception: vectorstore = self.create_rag_index(file_objs).
\* services/documentation_service.py: create_rag_index needs repo_id, the call
\* raises TypeError; documentation_service.py: the index is built in
\* settings.CHROMA_PERSIST_DIRECTORY
SynthOpenRaises(j) ==
  /\ job[j].pc = "direct"
  /\ IF job[j].entry = "inference"
     THEN /\ job' = [job EXCEPT ![j].pc = "failed", ![j].error = TypeError("repo_id")]
          /\ disk' = disk
     ELSE LET dir == PersistDirectoryShared(job[j].repo_id)
              docs == CreateDocs(job[j].file_objs, j)
              old == IF dir \in DOMAIN disk THEN disk[dir] ELSE <<>>
          IN /\ disk' = [d \in DOMAIN disk \cup {dir} |->
                           IF d = dir THEN old \o docs ELSE disk[d]]
             /\ job' = [job EXCEPT ![j] = [EnterLocals(j, dir) EXCEPT !.built = docs]]
  /\ UNCHANGED <<srVars, exVars>>

\* where the index of an earlier job may lie
EarlierDirs(entry) == {CHROMA_PERSIST_DIRECTORY, PersistDirectory(entry, Repo1)}

InitNoIndex ==
  /\ DocIdleSr
  /\ \E entry \in Entries, objs \in SeqsUpTo(RecordsCat, MaxPaths),
        earlier \in EarlierLists :
       \E dir \in EarlierDirs(entry) :
         /\ Len(CreateDocs(objs, 1)) + Len(CreateDocs(earlier, 0)) <= MaxDocs
         /\ job = [j \in Jobs |->
                     IF j = 1
                     THEN [NewJob(entry, Repo1, objs, None) EXCEPT !.pc = "direct"]
                     ELSE OffJob]
         /\ disk = IF earlier = <<>> THEN <<>>
                   ELSE [d \in {dir} |-> CreateDocs(earlier, 0)]

NextNoIndex ==
  \E j \in Jobs :
    \/ SynthOpenReturns(j)
    \/ SynthOpenRaises(j)
    \/ QuerySearch(j)
    \/ QueryResolve(j)
    \/ SynthChunks(j)
    \/ SynthInvokeReturns(j)
    \/ SynthInvokeRaises(j)
    \/ SynthReturn(j)

SpecNoIndex == InitNoIndex /\ [][NextNoIndex]_vars

\* C13: called with no index, the synthesizer opens the persisted index that
\* exists for the job; if and only if there is none it builds one from the
\* file list passed to it; in both cases synthesis goes on and returns a
\* document (only a failing LLM invocation stops it).
C13_SynthesizerWithoutIndex ==
  \A j \in Jobs :
    /\ job[j].pc \in {"query", "searched", "chunks", "joined"} =>
         /\ job[j].vectorstore = PersistDirectory(job[j].entry, job[j].repo_id)
         /\ job[j].existed => job[j].built = <<>>
         /\ ~job[j].existed =>
              /\ job[j].built = CreateDocs(job[j].file_objs, j)
              /\ job[j].vectorstore \in DOMAIN disk
              /\ disk[job[j].vectorstore] = job[j].built
    /\ job[j].pc = "failed" => job[j].error.type = "AgentError"

(***************************************************************************)
(* The knobs of a call (SpecRetry).                                        *)
(***************************************************************************)
\* C14: a call uses exactly the max_retries >= 1 and the base backoff >= 0
\* passed to safe_run and the chunk size > 0 passed to the synthesizer
\* (a base backoff of 0 gives sleeps of 0 seconds); the configured defaults
\* 5, 10 and 10 are used only when the caller passes no value.
C14_PerCallOverride ==
  /\ attempt >= 1 =>
       /\ sr_args.max_retries = None => max_retries = 5
       /\ (sr_args.max_retries # None /\ sr_args.max_retries[1] >= 1) =>
            max_retries = sr_args.max_retries[1]
       /\ sr_args.backoff_secs = None => backoff_secs = 10
       /\ sr_args.backoff_secs # None =>
            /\ backoff_secs = sr_args.backoff_secs[1]
            /\ \A i \in 1..Len(trace) :
                 trace[i].ev = "sleep" =>
                   trace[i].secs = sr_args.backoff_secs[1] * Pow2(trace[i].att - 1)
  /\ \A j \in Jobs : Chunked(j) =>
       /\ job[j].chunk_arg = None => job[j].chunk_size = 10
       /\ (job[j].chunk_arg # None /\ job[j].chunk_arg[1] > 0) =>
            job[j].chunk_size = job[j].chunk_arg[1]

(***************************************************************************)
(* Rate-limit failures in the synthesizer (SpecSynth).                     *)
(***************************************************************************)
\* C15: a rate-limit failure of an LLM invocation of any stage is retried with
\* backoff; a job fails on rate limiting only with the exhausted error, after
\* max_retries attempts of that invocation, never with the rate-limit error
\* of a single attempt.
C15_RateLimitTransient ==
  /\ ex_pc = "raised" =>
       ~(ex_error.type = "AgentError" /\ ex_error.text \in RateLimitTexts)
  /\ \A j \in Jobs :
       job[j].pc = "failed" =>
         ~(job[j].error.type = "AgentError" /\ job[j].error.text \in RateLimitTexts)

(***************************************************************************)
(* Sentinel records in the index and in the prompts (SpecSynth).           *)
(***************************************************************************)
\* a record of the shape {error_parsing_JSON, path, id}
IsSentinel(rec) == DOMAIN rec = {"error_parsing_JSON", "path", "id"}

\* the block of path p in the data of a prompt: from its FILE line to the next
BlockOf(data, p) ==
  LET start == CHOOSE i \in 1..Len(data) : data[i] = "--- FILE: " /\ data[i + 1] = p
      later == {k \in (start + 1)..Len(data) : data[k] = "--- FILE: "}
      stop == IF later = {} THEN Len(data)
              ELSE (CHOOSE k \in later : \A m \in later : k <= m) - 1
  IN SubSeq(data, start, stop)

\* C16: a file list with records of the sentinel shape goes through
\* create_rag_index and the synthesizer without an error of theirs; a sentinel
\* record counts as having no classes, functions or examples: it gives exactly
\* one index document, the overview, and a block with no Classes and no
\* Functions subsection.
C16_SentinelDownstream ==
  \A j \in Jobs :
    (\E i \in 1..Len(job[j].file_objs) : IsSentinel(job[j].file_objs[i])) =>
      /\ job[j].pc \notin {"off", "new"}
           => job[j].pc # "failed" \/ job[j].error.type = "AgentError"
      /\ job[j].pc \notin {"off", "new", "failed"} \/ job[j].built # <<>> =>
           \A i \in 1..Len(job[j].file_objs) :
             IsSentinel(job[j].file_objs[i]) =>
               LET mine == SelectSeq(job[j].built,
                                     LAMBDA d : Loads(d.full_json) = job[j].file_objs[i])
                   copies == Cardinality({k \in 1..Len(job[j].file_objs) :
                                            job[j].file_objs[k] = job[j].file_objs[i]})
               IN /\ Len(mine) = copies
                  /\ \A n \in 1..Len(mine) :
                       /\ mine[n].doc_type = "file_overview"
                       /\ mine[n].path = job[j].file_objs[i]["path"]
      /\ \A n \in 1..Len(job[j].sent) :
           \A p \in Elements(FilesIn(job[j].sent[n])) :
             IsSentinel(job[j].all_file_data[p]) =>
               LET block == BlockOf(job[j].sent[n], p)
               IN /\ SubSeq(block, 1, 3) = <<"--- FILE: ", p, "Module Docstring: ">>
                  /\ "Classes:" \notin Elements(block)
                  /\ "Functions:" \notin Elements(block)

C16_Witness ==
  \E j \in Jobs :
    /\ job[j].pc = "joined"
    /\ job[j].file_objs = << Sentinel(<<"Sorry">>, "c"),
                             FileRecord("b", "doc", <<>>, <<FuncF>>, <<>>) >>
    /\ Len(job[j].built) = 3
    /\ Len(job[j].sent) = 1
    /\ IsSentinel(job[j].all_file_data["c"])
    /\ "Functions:" \in Elements(job[j].sent[1])

(***************************************************************************)
(* The order of the LLM invocations: a call of extract_file_metadata or a  *)
(* job of the synthesizer (SpecCalls).                                     *)
(***************************************************************************)
InitCalls == InitExtract \/ InitSynth

NextCalls == NextExtract \/ NextSynth

SpecCalls == InitCalls /\ [][NextCalls]_vars

\* the step adds an event (an invocation or a sleep) to the trace of safe_run
AddsEvent == Len(trace') = Len(trace) + 1

\* C17: the calls are strictly sequential.  Every step of safe_run adds at
\* most one invocation or sleep; an extraction invocation is for the path at
\* the current position of the file list, and the records of all earlier paths
\* are there before it; the position moves on by one, and only once the call
\* for the current path is over.  A synthesis invocation is for the chunk that
\* follows the chunks already sent, and every earlier invocation has returned.
C17_SequentialCalls ==
  [][/\ trace' = <<>> \/ trace' = trace \/ (AddsEvent /\ SubSeq(trace', 1, Len(trace)) = trace)
     /\ (AddsEvent /\ ex_pc # "idle") =>
          /\ ex_pc = "run"
          /\ sr_prompt = file_list[item]
          /\ Len(data_list) = item - 1
          /\ item' = item
     /\ item' # item =>
          /\ item' = item + 1
          /\ Len(data_list') = item
          /\ sr_pc' = "idle"
          /\ trace' = <<>>
     /\ \A j \in Jobs :
          LET old == job[j].sent
              new == job'[j].sent
              C == job[j].chunk_size
              n == Len(old) + 1
              paths == InputPaths(j)
          IN new # old =>
               /\ Len(new) = n
               /\ SubSeq(new, 1, Len(old)) = old
               /\ Len(job[j].llm_outs) = Len(old)
               /\ job[j].ci = n
               /\ Elements(FilesIn(new[n])) =
                    Elements(SubSeq(paths, (n - 1) * C + 1, Min(n * C, Len(paths))))
    ]_vars

C17_Witness ==
  \E j \in Jobs :
    /\ job[j].pc = "chunks"
    /\ job[j].chunk_arg = Some(1)
    /\ job[j].file_paths = <<"b", "a", "c">>
    /\ Len(job[j].sent) = 2
    /\ FilesIn(job[j].sent[1]) = <<"b">>
    /\ FilesIn(job[j].sent[2]) = <<"a">>
    /\ Len(job[j].llm_outs) = 2

(***************************************************************************)
(* Building over an index that is already there (SpecSynth).               *)
(***************************************************************************)
\* C18: after create_rag_index has run for a job identifier whose storage
\* already held documents, the index of that identifier holds exactly the
\* documents of the file list of this build and none of the earlier ones.
C18_RebuildFresh ==
  \A j \in Jobs :
    job[j].pc = "built" =>
      /\ disk[job[j].vectorstore] = job[j].built
      /\ \A i \in 1..Len(disk[job[j].vectorstore]) :
           disk[job[j].vectorstore][i].owner = j

(***************************************************************************)
(* The chunk loop on every shape of record (SpecRender): the synthesizer   *)
(* after its lookups on an index just built from the file list, at the     *)
(* first chunk.                                                            *)
(***************************************************************************)
InitRender ==
  /\ DocIdleSr
  /\ \E entry \in Entries, objs \in SeqsUpTo(ShapesCat, MaxPaths),
        chunk_arg \in {None, Some(1)} :
       LET paths == [i \in 1..Len(objs) |-> objs[i]["path"]]
           dir == PersistDirectory(entry, Repo1)
           size == OrDefault(chunk_arg, CHUNK_SIZE)
       IN /\ job = [j \in Jobs |->
                      IF j = 1
                      THEN [NewJob(entry, Repo1, objs, chunk_arg) EXCEPT
                              !.pc = "chunks",
                              !.vectorstore = dir,
                              !.built = CreateDocs(objs, 1),
                              !.chunk_size = size,
                              !.file_paths = paths,
                              !.qi = Len(paths) + 1,
                              !.all_file_data = Fallback(<<>>, objs, paths),
                              !.file_chunks = FileChunks(paths, size),
                              !.ci = 1]
                      ELSE OffJob]
          /\ disk = [d \in {dir} |-> CreateDocs(objs, 1)]

NextRender ==
  \E j \in Jobs :
    \/ SynthInvokeReturns(j)
    \/ SynthInvokeRaises(j)
    \/ SynthReturn(j)

SpecRender == InitRender /\ [][NextRender]_vars

\* the length of the block of a record: the FILE and docstring lines, a
\* subsection header and its lines for each list that is not empty
BlockLen(rec) ==
  LET cls == Get(rec, "classes", <<>>)
      fns == Get(rec, "functions", <<>>)
      ClassLen(c) == 3 + 3 * Len(Get(c, "methods", <<>>))
      RECURSIVE Sum(_)
      Sum(i) == IF i = 0 THEN 0 ELSE ClassLen(cls[i]) + Sum(i - 1)
  IN 4 + (IF cls = <<>> THEN 0 ELSE 1 + Sum(Len(cls)))
       + (IF fns = <<>> THEN 0 ELSE 1 + 5 * Len(fns))

\* C19: the text sent for a chunk has exactly one block per path of the
\* chunk, in the chunk's order, each made from the record resolved for the
\* path: the module docstring line always, a Classes subsection (each class
\* name and docstring, each method name and docstring) if and only if the
\* classes list is not empty, a Functions subsection (name, docstring,
\* signature) if and only if the functions list is not empty, and nothing
\* else; two chunks with the same paths get the same text.
C19_ChunkRendering ==
  \A j \in Jobs : \A n \in 1..Len(job[j].sent) :
    LET data == job[j].sent[n]
        chunk == job[j].file_chunks[n]
    IN /\ Distinct(FilesIn(data))
       /\ Elements(FilesIn(data)) = Elements(chunk)
       /\ Distinct(chunk) => FilesIn(data) = chunk
       /\ \A m \in 1..Len(job[j].sent) :
            job[j].file_chunks[m] = chunk => job[j].sent[m] = data
       /\ \A p \in Elements(chunk) :
            LET rec == job[j].all_file_data[p]
                block == BlockOf(data, p)
                cls == Get(rec, "classes", <<>>)
                fns == Get(rec, "functions", <<>>)
            IN /\ SubSeq(block, 1, 4) =
                    <<"--- FILE: ", p, "Module Docstring: ",
                      IF "module_docstring_or_header" \in DOMAIN rec
                      THEN rec["module_docstring_or_header"] ELSE "None">>
               /\ Len(block) = BlockLen(rec)
               /\ "Classes:" \in Elements(block) <=> cls # <<>>
               /\ "Functions:" \in Elements(block) <=> fns # <<>>
               /\ cls # <<>> =>
                    /\ block[5] = "Classes:"
                    /\ \A i \in 1..Len(cls) : \E k \in 1..(Len(block) - 2) :
                         /\ block[k] = "  - "
                         /\ block[k + 1] = cls[i]["name"]
                         /\ block[k + 2] = cls[i]["docstring_or_javadoc"]
                         /\ \A q \in 1..Len(cls[i]["methods"]) :
                              /\ block[k + 3 * q] = "    * "
                              /\ block[k + 3 * q + 1] = cls[i]["methods"][q]["name"]
                              /\ block[k + 3 * q + 2] =
                                   cls[i]["methods"][q]["docstring_or_comment"]
               /\ fns # <<>> =>
                    /\ block[Len(block) - 5 * Len(fns)] = "Functions:"
                    /\ \A i \in 1..Len(fns) :
                         LET k == Len(block) - 5 * (Len(fns) - i + 1) + 1
                         IN SubSeq(block, k, k + 4) =
                              <<"  - ", fns[i]["name"], fns[i]["docstring_or_comment"],
                                "    Signature: ", fns[i]["signature"]>>

C19_Witness ==
  \E j \in Jobs :
    /\ Len(job[j].sent) = 1
    /\ job[j].file_chunks[1] = <<"a", "b">>
    /\ job[j].all_file_data["a"] =
         FileRecord("a", "doc", <<ClassK>>, <<FuncF>>, <<ExampleE>>)
    /\ Len(BlockOf(job[j].sent[1], "a")) = 17
    /\ Len(BlockOf(job[j].sent[1], "b")) = 10

(***************************************************************************)
(* Claims about the failures of extract_file_metadata (SpecExtract).       *)
(***************************************************************************)
\* the invocation that has just failed is fatal: its error is no rate-limit
\* error, or it was the last of MAX_RETRIES rate-limited attempts
FatalFailure(tr) ==
  LET inv == Invocations(tr)
  IN /\ inv # <<>>
     /\ ~inv[Len(inv)].ok
     /\ \/ inv[Len(inv)].text \notin RateLimitTexts
        \/ (AllRateLimited(inv) /\ Len(inv) = MAX_RETRIES /\ Len(Sleeps(tr)) = MAX_RETRIES)

\* the error a fatal failure stands for
FatalError(tr) ==
  LET inv == Invocations(tr)
      last == inv[Len(inv)]
  IN IF last.text \notin RateLimitTexts
     THEN AgentError(last.text, last.att)
     ELSE ExhaustedError(MAX_RETRIES)

\* C20: when the invocation for the i-th path fails with an error that is no
\* rate-limit error, or the retries for it are exhausted, extract_file_metadata
\* raises that error (the agent's error, or the "retries exhausted"
\* RuntimeError) to its caller: the records collected so far are not returned,
\* no record is added for the i-th path, and nothing is invoked for the i-th
\* or any later path afterwards.
C20_ExtractionAborts ==
  [][ /\ (ex_pc = "run" /\ sr_pc' = "raised") <=> (ex_pc = "run" /\ FatalFailure(trace'))
      /\ (ex_pc = "run" /\ sr_pc = "raised") =>
           /\ FatalFailure(trace)
           /\ sr_prompt = file_list[item]
           /\ ex_pc' = "raised"
           /\ ex_error' = FatalError(trace)
           /\ item' = item
           /\ data_list' = data_list
           /\ Len(data_list') = item - 1
           /\ sr_pc' = "idle"
      /\ ex_pc # "raised"
      /\ ex_pc' = "returned" => Len(data_list') = Len(file_list) /\ ex_error' = NoError
    ]_vars

C20_Witness ==
  /\ ex_pc = "raised"
  /\ Len(file_list) = 2
  /\ item = 1
  /\ data_list = <<>>
  /\ ex_error = ExhaustedError(MAX_RETRIES)

(***************************************************************************)
(* Claims about the failures of the synthesizer (SpecSynth).               *)
(***************************************************************************)
\* the step of job j is an invocation for a chunk that failed: a text was
\* sent and no answer came back
ChunkInvocationFails(j) ==
  /\ Len(job'[j].sent) = Len(job[j].sent) + 1
  /\ Len(job'[j].llm_outs) = Len(job[j].llm_outs)

\* C21: when the LLM invocation for the j-th chunk fails, the synthesizer
\* raises that error to its caller: the job has failed with it, no document
\* is returned (the answers for chunks 1..j-1 are in no document), and no
\* chunk after the j-th is invoked: the failed job takes no further step.
C21_SynthesisAborts ==
  [][ \A j \in Jobs :
        /\ ChunkInvocationFails(j) =>
             /\ job[j].pc = "chunks"
             /\ job'[j].pc = "failed"
             /\ job'[j].error.type = "AgentError"
             /\ job'[j].error.text \in err_texts
             /\ job'[j].error.n = job[j].ci
             /\ Len(job'[j].sent) = job[j].ci
             /\ Len(job[j].llm_outs) = job[j].ci - 1
             /\ job'[j].doc = <<>>
        /\ job[j].pc = "failed" => job'[j] = job[j]
        /\ job'[j].doc # job[j].doc =>
             /\ Len(job[j].llm_outs) = Len(job[j].file_chunks)
             /\ Len(job[j].sent) = Len(job[j].file_chunks)
    ]_vars

C21_Witness ==
  \E j \in Jobs :
    /\ job[j].pc = "failed"
    /\ job[j].error.type = "AgentError"
    /\ job[j].error.n = 2
    /\ Len(job[j].file_chunks) = 3
    /\ Len(job[j].llm_outs) = 1
    /\ job[j].llm_outs[1] = <<"# Docs">>
    /\ Len(job[j].sent) = 2
    /\ job[j].doc = <<>>

(***************************************************************************)
(* One whole job (SpecJob): a route of main.py, or Inference(repo_id)      *)
(* followed by generate_docs() or generate_html_docs().  kind is           *)
(* "markdown" for the document alone and "html" when the conversion is     *)
(* asked for.                                                              *)
(***************************************************************************)
Kinds == {"markdown", "html"}

ValueError(text) == [type |-> "ValueError", text |-> <<text>>, n |-> 0]

\* the paths of the repository
RepoPaths == {"a", "b"}

\* filtered_response['output']: a list of paths of the repository as a Python
\* literal, each path once, or a text ast.literal_eval does not take
FilteredOutputs ==
  {[ok |-> TRUE, val |-> l] : l \in {x \in SeqsUpTo(RepoPaths, MaxPaths) : Distinct(x)}}
    \cup {[ok |-> FALSE, val |-> <<"Sorry">>]}

\* project metadata as the agent words it
ProjectMetadata == <<"python">>

\* get_file_paths: the agent lists the repository
GetFilePathsList(j) ==
  /\ job[j].pc = "start"
  /\ job' = [job EXCEPT ![j].pc = "listed"]
  /\ UNCHANGED <<disk, srVars, exVars>>

\* get_file_paths: the agent filters the list; ast.literal_eval of its answer
GetFilePathsFilter(j) ==
  /\ job[j].pc = "listed"
  /\ \E out \in FilteredOutputs :
       IF out.ok
       THEN job' = [job EXCEPT ![j].pc = "selected", ![j].selection = out.val]
       ELSE job' = [job EXCEPT ![j].pc = "failed",
                               ![j].error = ValueError("Failed to parse file list")]
  /\ UNCHANGED <<disk, srVars, exVars>>

\* analyze_project_metadata(file_paths): one invocation of the agent
AnalyzeProjectMetadata(j) ==
  /\ job[j].pc = "selected"
  /\ job' = [job EXCEPT ![j].pc = "analyzed", ![j].project_metadata = ProjectMetadata]
  /\ UNCHANGED <<disk, srVars, exVars>>

\* an invocation of get_file_paths or analyze_project_metadata raises: neither
\* is wrapped, the exception leaves the job
SelectionRaises(j) ==
  /\ job[j].pc \in {"start", "listed", "selected"}
  /\ \E text \in err_texts :
       job' = [job EXCEPT ![j].pc = "failed", ![j].error = AgentError(text, 1)]
  /\ UNCHANGED <<disk, srVars, exVars>>

\* extract_file_metadata(repo_id, file_paths, project_metadata) is called
ExtractEnter(j) ==
  /\ job[j].pc = "analyzed"
  /\ ex_pc = "idle"
  /\ job' = [job EXCEPT ![j].pc = "extract"]
  /\ ex_pc' = "loop"
  /\ file_list' = job[j].selection
  /\ item' = 1
  /\ data_list' = <<>>
  /\ ex_raws' = <<>>
  /\ ex_error' = NoError
  /\ UNCHANGED <<disk, srVars>>

\* a job that swallows the failure of the extraction and goes on with the
\* records it has
ExtractFailedGoesOn(j) ==
  /\ job[j].pc = "extract"
  /\ ex_pc = "raised"
  /\ job' = [job EXCEPT ![j].pc = "new", ![j].file_objs = data_list]
  /\ UNCHANGED <<disk, srVars, exVars>>

\* extract_file_metadata raised: the exception leaves the job
ExtractFailed(j) ==
  /\ job[j].pc = "extract"
  /\ ex_pc = "raised"
  /\ job' = [job EXCEPT ![j].pc = "failed", ![j].error = ex_error]
  /\ UNCHANGED <<disk, srVars, exVars>>

\* file_metadata = extract_file_metadata(...): the records go to the index build
ExtractDone(j) ==
  /\ job[j].pc = "extract"
  /\ ex_pc = "returned"
  /\ job' = [job EXCEPT ![j].pc = "new", ![j].file_objs = data_list]
  /\ UNCHANGED <<disk, srVars, exVars>>

\* generate_html_docs(markdown_docs), when the job asks for HTML
ConvertTemplateMissing(j) ==
  /\ job[j].kind = "html"
  /\ HtmlTemplateMissing(j)

ConvertReturns(j) ==
  /\ job[j].kind = "html"
  /\ HtmlInvokeReturns(j)

ConvertRaises(j) ==
  /\ job[j].kind = "html"
  /\ HtmlInvokeRaises(j)

\* a request arrives; nothing is on disk.  The routes and Inference pass no
\* chunk size: chunk_arg Some(1) is the job of a deployment whose CHUNK_SIZE
\* setting is 1, where chunk_size or settings.CHUNK_SIZE is 1 as well
InitJob ==
  /\ sr_pc = "idle"
  /\ sr_prompt = "a"
  /\ sr_args = [max_retries |-> None, backoff_secs |-> None]
  /\ max_retries = 0
  /\ backoff_secs = 0
  /\ attempt = 0
  /\ trace = <<>>
  /\ sr_result = <<>>
  /\ sr_error = NoError
  /\ err_texts = {Err429, ErrTimeout}
  /\ ExIdle
  /\ \E entry \in Entries, kind \in Kinds, chunk_arg \in {None, Some(1)} :
       job = [j \in Jobs |->
                IF j = 1 THEN [OffJob EXCEPT !.pc = "start", !.entry = entry,
                                             !.repo_id = Repo1, !.kind = kind,
                                             !.chunk_arg = chunk_arg]
                ELSE OffJob]
  /\ disk = <<>>

\* the steps of extract_file_metadata and of safe_run are those of SpecExtract,
\* the steps from the index build on are those of SpecSynth
NextJob ==
  \/ NextExtract
  \/ \E j \in Jobs :
       \/ GetFilePathsList(j)
       \/ GetFilePathsFilter(j)
       \/ AnalyzeProjectMetadata(j)
       \/ SelectionRaises(j)
       \/ ExtractEnter(j)
       \/ ExtractFailed(j)
       \/ ExtractDone(j)
       \/ JobStep(j)
       \/ ConvertTemplateMissing(j)
       \/ ConvertReturns(j)
       \/ ConvertRaises(j)

SpecJob == InitJob /\ [][NextJob]_vars

(***************************************************************************)
(* Claims about a whole job (SpecJob).                                     *)
(***************************************************************************)
\* the step is a step of the extraction: of extract_file_metadata or safe_run
ExtractionStep == <<srVars, exVars>>' # <<srVars, exVars>>

\* the step of job j starts the index build
BuildStep(j) == job[j].pc = "new" /\ job'[j].pc # "new"

\* the step of job j is an invocation for a chunk
ChunkInvocation(j) == job'[j].sent # job[j].sent

\* the step of job j tears the index down
TeardownStep(j) == job[j].pc = "joined" /\ job[j].entry = "inference" /\ job'[j].pc = "done"

\* the step of job j is the invocation of the HTML conversion
HtmlInvocation(j) == job'[j].html_calls # job[j].html_calls

\* C22: in every run of a job the file selection is complete before the first
\* extraction invocation, every extraction invocation is complete before the
\* index build starts, the index build is complete before the first chunk
\* invocation, every chunk invocation is complete before the index is torn
\* down, the HTML conversion is invoked only after the markdown document is
\* complete, and a job in which a stage has failed takes no further step.
C22_StageOrdering ==
  [][ \A j \in {1} :
        /\ ExtractionStep =>
             /\ job[j].pc \in {"analyzed", "extract"}
             /\ job'[j].pc = "extract"
             /\ job'[j].selection = job[j].selection
             /\ file_list' = job[j].selection
             /\ job[j].project_metadata = ProjectMetadata
        /\ trace' # trace =>
             /\ job[j].pc = "extract"
             /\ job'[j] = job[j]
             /\ file_list = job[j].selection
        /\ job'[j].selection # job[j].selection =>
             ex_pc = "idle" /\ sr_pc = "idle" /\ trace = <<>> /\ job[j].pc = "listed"
        /\ BuildStep(j) =>
             /\ ex_pc = "returned" /\ sr_pc = "idle"
             /\ job[j].file_objs = data_list
             /\ Len(data_list) = Len(job[j].selection)
             /\ job[j].sent = <<>>
        /\ ChunkInvocation(j) =>
             /\ job[j].pc = "chunks"
             /\ job[j].vectorstore \in DOMAIN disk
             /\ \A i \in 1..Len(job[j].built) :
                  \E k \in 1..Len(disk[job[j].vectorstore]) :
                    disk[job[j].vectorstore][k] = job[j].built[i]
             /\ disk' = disk
        /\ disk' # disk => (BuildStep(j) \/ TeardownStep(j))
        /\ TeardownStep(j) =>
             /\ Len(job[j].llm_outs) = Len(job[j].file_chunks)
             /\ Len(job[j].sent) = Len(job[j].file_chunks)
             /\ job[j].doc = Join(job[j].llm_outs)
        /\ HtmlInvocation(j) =>
             /\ job[j].kind = "html"
             /\ job[j].pc = "done"
             /\ job[j].doc = Join(job[j].llm_outs)
             /\ Len(job[j].llm_outs) = Len(job[j].file_chunks)
             /\ job[j].html_calls = 0
        /\ job[j].pc = "failed" => FALSE
    ]_vars

C22_Witness ==
  /\ job[1].pc = "html"
  /\ job[1].entry = "http"
  /\ job[1].selection = <<"a", "b">>
  /\ Len(job[1].file_objs) = 2
  /\ Len(job[1].llm_outs) = 2
  /\ job[1].html_calls = 1
  /\ job[1].html = <<"<html>">>

(***************************************************************************)
(* Claims about the inputs of the stages (SpecCalls).                      *)
(***************************************************************************)
\* C23: no stage changes its input: the index build, the index lookups and
\* the synthesizer leave the list of records passed to them as it was (same
\* length, same order, same field values), extract_file_metadata leaves the
\* list of paths as it was; a record used through the fallback rule is the
\* passed record, field for field.
C23_NoInputMutation ==
  [][ /\ file_list' = file_list
      /\ \A j \in Jobs :
           /\ job'[j].file_objs = job[j].file_objs
           /\ job'[j].pc \in {"chunks", "joined", "done", "failed"} =>
                \A p \in job'[j].absent :
                  \E i \in 1..Len(job'[j].file_objs) :
                    /\ job'[j].file_objs[i]["path"] = p
                    /\ job'[j].all_file_data[p] = job'[j].file_objs[i]
    ]_vars

C23_Witness ==
  \E j \in Jobs :
    /\ job[j].pc = "done"
    /\ job[j].absent = {"c"}
    /\ job[j].file_objs =
         << FileRecord("a", "doc", <<ClassK>>, <<>>, <<>>), Sentinel(<<"Sorry">>, "c") >>
    /\ Len(job[j].sent) = 1

\* C24: when a chunk invocation raises after the index was built, the error
\* reaches the caller of the job and no teardown has run: the job's index
\* directory still exists, with the documents of the build in it.
C24_NoCleanupOnError ==
  \A j \in Jobs :
    (job[j].pc = "failed" /\ job[j].sent # <<>>) =>
      /\ job[j].error.type = "AgentError"
      /\ job[j].vectorstore = PersistDirectory(job[j].entry, job[j].repo_id)
      /\ job[j].vectorstore \in DOMAIN disk
      /\ job[j].removed = {}
      /\ \A i \in 1..Len(job[j].built) :
           \E k \in 1..Len(disk[job[j].vectorstore]) :
             disk[job[j].vectorstore][k] = job[j].built[i]

C24_Witness ==
  \E j \in Jobs :
    /\ job[j].pc = "failed"
    /\ job[j].entry = "inference"
    /\ job[j].error = AgentError(Err429, 2)
    /\ Len(job[j].built) = 3
    /\ disk[PersistDirectoryPerRepo(Repo1)] = job[j].built

(***************************************************************************)
(* Claims about the keys of the extracted records (SpecExtract).           *)
(***************************************************************************)
\* C25: for a list of pairwise distinct paths and every answer of the LLM,
\* the i-th record extract_file_metadata collects has a path and an id, its
\* path is the i-th input path, and so the paths of the records are pairwise
\* distinct; for records parsed from JSON and for sentinels alike.
C25_PathIsKey ==
  Distinct(file_list) =>
    /\ \A i \in 1..Len(data_list) :
         /\ {"path", "id"} \subseteq DOMAIN data_list[i]
         /\ data_list[i]["path"] = file_list[i]
    /\ Distinct([i \in 1..Len(data_list) |-> data_list[i]["path"]])

(***************************************************************************)
(* Termination of a job (SpecJobFair): the job keeps taking steps, that    *)
(* is, every invocation and every sleep returns or fails in the end.       *)
(***************************************************************************)
SpecJobFair == SpecJob /\ WF_vars(NextJob)

\* the job is over: it failed, or the document asked for is there
Terminated(j) ==
  \/ job[j].pc = "failed"
  \/ job[j].pc = "done" /\ job[j].kind = "markdown"
  \/ job[j].pc = "html"

\* the invocations made for the current path, and the most the paths before
\* it can have taken, are within N * M
ExtractionWithinBound ==
  /\ Len(Invocations(trace)) <= MAX_RETRIES
  /\ ex_pc \in {"loop", "run", "returned", "raised"} =>
       /\ item - 1 <= Len(file_list)
       /\ Len(data_list) = item - 1
       /\ sr_pc # "idle" => item <= Len(file_list)
       /\ (IF sr_pc = "idle" THEN item - 1 ELSE item) * MAX_RETRIES
            <= Len(file_list) * MAX_RETRIES

\* C26: a job over N files with chunk size C and max_retries M reaches
\* completion or failure, and stays there, after at most M invocations for
\* each of the N paths, each path taken once and in turn (N * M extraction
\* invocations at most), and at most ceil(N / C) chunk invocations.
C26_JobTerminates ==
  /\ [](ExtractionWithinBound /\
        \A j \in Jobs :
          /\ job[j].pc \in {"chunks", "joined", "done", "html", "failed"} =>
               Len(job[j].sent) <= Len(job[j].file_chunks)
          /\ job[j].file_chunks # <<>> =>
               Len(job[j].file_chunks) = CeilDiv(Len(job[j].file_objs), job[j].chunk_size))
  /\ [][ /\ item' \in {item, item + 1} \/ ex_pc = "idle"
         /\ (trace' # trace /\ trace' # <<>>) => (item' = item /\ Len(trace') = Len(trace) + 1)
         /\ \A j \in Jobs : Terminated(j) => job'[j] = job[j] ]_vars
  /\ <>[]Terminated(1)

C26_Witness ==
  /\ job[1].pc = "done"
  /\ job[1].kind = "markdown"
  /\ job[1].chunk_size = 1
  /\ Len(file_list) = 2
  /\ Len(job[1].sent) = 2
  /\ Len(job[1].file_objs) = 2

(***************************************************************************)
(* Claims about the sleeps of safe_run (SpecRetry).                        *)
(***************************************************************************)
\* the rate-limit failures among the events of tr
RateLimitFailures(tr) ==
  SelectSeq(tr, LAMBDA e : e.ev = "invoke" /\ ~e.ok /\ e.text \in RateLimitTexts)

RECURSIVE TotalSlept(_)
TotalSlept(tr) ==
  IF tr = <<>> THEN 0
  ELSE (IF Head(tr).ev = "sleep" THEN Head(tr).secs ELSE 0) + TotalSlept(Tail(tr))

\* C27: safe_run sleeps after every rate-limit failure, the failure of the last
\* permitted attempt included: once the sleep that follows a failure is over,
\* the sleeps are as many as the rate-limit failures, each right after its
\* failure; on exhaustion, with M the attempts and B the base backoff of the
\* loop, the last event before the raise is the sleep of B * 2^(M-1) seconds
\* after attempt M and the sleeps add up to B * (2^M - 1) seconds.
C27_SleepAfterEveryFailure ==
  /\ sr_pc # "sleep" => Len(Sleeps(trace)) = Len(RateLimitFailures(trace))
  /\ sr_pc = "sleep" => Len(Sleeps(trace)) = Len(RateLimitFailures(trace)) - 1
  /\ \A i \in 1..Len(trace) :
       /\ trace[i].ev = "sleep" =>
            /\ i > 1
            /\ trace[i - 1].ev = "invoke" /\ ~trace[i - 1].ok
            /\ trace[i - 1].text \in RateLimitTexts
            /\ trace[i - 1].att = trace[i].att
            /\ trace[i].secs = backoff_secs * Pow2(trace[i].att - 1)
       /\ (trace[i].ev = "invoke" /\ ~trace[i].ok /\ trace[i].text \in RateLimitTexts
             /\ i < Len(trace)) => trace[i + 1].ev = "sleep"
  /\ (sr_pc = "raised" /\ sr_error.type = "RuntimeError" /\ trace # <<>>) =>
       /\ Len(Invocations(trace)) = max_retries
       /\ Len(Sleeps(trace)) = max_retries
       /\ trace[Len(trace)] = SleepEvent(max_retries, backoff_secs * Pow2(max_retries - 1))
       /\ TotalSlept(trace) = backoff_secs * (Pow2(max_retries) - 1)

C27_Witness ==
  /\ sr_pc = "raised"
  /\ sr_error.type = "RuntimeError"
  /\ sr_args = [max_retries |-> Some(3), backoff_secs |-> Some(2)]
  /\ Len(Sleeps(trace)) = 3
  /\ trace[Len(trace)].secs = 8
  /\ TotalSlept(trace) = 14

(***************************************************************************)
(* A job whose teardown can fail (SpecTeardown): shutil.rmtree raises      *)
(* while the directory is there (a file of the collection is in use or     *)
(* not removable), and delete_rag_index catches the exception.             *)
(***************************************************************************)
OSError(text) == [type |-> "OSError", text |-> <<text>>, n |-> 0]

\* a delete_rag_index without the except clause
DeleteRagIndexPropagates(j) ==
  /\ job[j].pc = "joined"
  /\ job[j].entry = "inference"
  /\ PersistDirectoryPerRepo(job[j].repo_id) \in DOMAIN disk
  /\ job' = [job EXCEPT ![j].pc = "failed", ![j].error = OSError("rmtree")]
  /\ UNCHANGED <<disk, srVars, exVars>>

\* delete_rag_index: shutil.rmtree(rag_path) raises on a directory that is
\* there; except Exception: the error is printed, the call returns
DeleteRagIndexRaises(j) ==
  /\ job[j].pc = "joined"
  /\ job[j].entry = "inference"
  /\ PersistDirectoryPerRepo(job[j].repo_id) \in DOMAIN disk
  /\ job' = [job EXCEPT ![j].pc = "done"]
  /\ UNCHANGED <<disk, srVars, exVars>>

InitTeardown == InitBuild

NextTeardown ==
  \E j \in Jobs :
    \/ JobStep(j)
    \/ DeleteRagIndexRaises(j)

SpecTeardown == InitTeardown /\ [][NextTeardown]_vars

\* C28: a failing teardown never fails the job: whatever the removal of the
\* index directory does, delete_rag_index returns, the job ends as done with
\* the document the synthesizer made, and no error; so a job can end as done
\* while its index directory is still there.
C28_TeardownNeverFails ==
  [][ \A j \in Jobs :
        (job[j].pc = "joined" /\ job[j].entry = "inference" /\ job'[j] # job[j]) =>
          /\ job'[j].pc = "done"
          /\ job'[j].error = NoError
          /\ job'[j].doc = job[j].doc
          /\ job'[j].doc = Join(job[j].llm_outs)
          /\ \/ disk' = disk
             \/ PersistDirectoryPerRepo(job[j].repo_id) \notin DOMAIN disk'
    ]_vars

C28_Witness ==
  \E j \in Jobs :
    /\ job[j].pc = "done"
    /\ job[j].entry = "inference"
    /\ job[j].doc = <<"# Docs">>
    /\ job[j].vectorstore \in DOMAIN disk
    /\ disk[job[j].vectorstore] = job[j].built
    /\ Len(job[j].built) = 5

(***************************************************************************)
(* Claims about the record that is rendered (SpecSynth).                   *)
(***************************************************************************)
\* the block of path p in text shows the docstring and the subsections of rec
ShowsRecord(text, p, rec) ==
  LET block == BlockOf(text, p)
  IN /\ block[4] = (IF "module_docstring_or_header" \in DOMAIN rec
                    THEN rec["module_docstring_or_header"] ELSE "None")
     /\ "Classes:" \in Elements(block) <=>
          ("classes" \in DOMAIN rec /\ rec["classes"] # <<>>)
     /\ "Functions:" \in Elements(block) <=>
          ("functions" \in DOMAIN rec /\ rec["functions"] # <<>>)

\* C29: an index hit takes precedence over the passed record: a path the
\* lookups resolved keeps the record read from the index through the fallback
\* step, the passed record is taken only for a path the lookups left out, and
\* the text sent for a chunk shows, for every path, the record so resolved;
\* so when the index holds another record for a path than the one passed,
\* the index's record is the one rendered.
C29_IndexHitPrecedence ==
  [][ \A j \in Jobs :
        /\ (job[j].pc = "query" /\ job'[j].pc = "chunks") =>
             \A p \in Elements(job[j].file_paths) :
               IF p \in DOMAIN job[j].all_file_data
               THEN /\ job'[j].all_file_data[p] = job[j].all_file_data[p]
                    /\ \E d \in Elements(disk[job[j].vectorstore]) :
                         d.path = p /\ job'[j].all_file_data[p] = Loads(d.full_json)
               ELSE \E i \in 1..Len(job[j].file_objs) :
                      /\ job[j].file_objs[i]["path"] = p
                      /\ job'[j].all_file_data[p] = job[j].file_objs[i]
        /\ job'[j].sent # job[j].sent =>
             \A p \in Elements(job[j].file_chunks[job[j].ci]) :
               ShowsRecord(job'[j].sent[Len(job'[j].sent)], p, job[j].all_file_data[p])
    ]_vars

C29_Witness ==
  \E j \in Jobs :
    /\ job[j].file_objs = << FileRecord("a", "doc", <<ClassK>>, <<>>, <<>>) >>
    /\ "a" \in DOMAIN job[j].all_file_data
    /\ job[j].all_file_data["a"] = FileRecord("a", "old", <<>>, <<FuncF>>, <<>>)
    /\ Len(job[j].sent) = 1
    /\ BlockOf(job[j].sent[1], "a")[4] = "old"
    /\ "Functions:" \in Elements(job[j].sent[1])
    /\ "Classes:" \notin Elements(job[j].sent[1])

\* the synthesizer of job j has returned its document
SynthReturned(j) == job[j].pc \in {"joined", "done"}

\* C30: for an empty file list the synthesizer cuts zero chunks, invokes the
\* LLM zero times and returns the empty string; for every file list the
\* number of chunks, and on return the number of LLM invocations, is the
\* length of the list divided by the chunk size and rounded up, whatever the
\* records hold and however many paths the index resolved, and before the
\* return it is never more.
C30_InvocationCount ==
  \A j \in Jobs :
    LET chunks == CeilDiv(Len(job[j].file_objs), job[j].chunk_size)
    IN /\ job[j].pc \in {"chunks", "joined", "done", "failed"} =>
            Len(job[j].sent) <= chunks
       /\ job[j].pc = "chunks" => Len(job[j].file_chunks) = chunks
       /\ SynthReturned(j) =>
            /\ Len(job[j].file_chunks) = chunks
            /\ Len(job[j].sent) = chunks
            /\ Len(job[j].llm_outs) = chunks
            /\ job[j].file_objs = <<>> =>
                 /\ job[j].file_chunks = <<>>
                 /\ job[j].sent = <<>>
                 /\ job[j].doc = <<>>

C30_Witness ==
  \E j \in Jobs :
    /\ SynthReturned(j)
    /\ job[j].file_objs = <<>>
    /\ job[j].file_chunks = <<>>
    /\ job[j].sent = <<>>
    /\ job[j].doc = <<>>

====
